---- MODULE Spec2Model ----
(***************************************************************************)
(* Zen registry store (src/src/db.rs) and the commands that drive it      *)
(* (src/src/main.rs, src/src/ops.rs, src/src/mcp.rs).                      *)
(*                                                                         *)
(* The store is one SQLite file.  Every table is a variable.  Tables with  *)
(* a UNIQUE key are sets of rows; project_environments and                 *)
(* active_sessions have no UNIQUE key and are bags of rows.                *)
(***************************************************************************)
EXTENDS Integers, FiniteSets, Sequences, Bags, TLC

VARIABLES
    environments,          \* table environments: rows [id, name, path, python_version]
    envSeq,                \* AUTOINCREMENT counter of environments.id
    labels,                \* table labels: rows [env_id, label]
    project_environments,  \* table project_environments: bag of link rows
    comments,              \* table comments: rows [uuid, project_path, env_id]
    templates,             \* table templates: rows [id, name, version, python_version]
    tplSeq,                \* AUTOINCREMENT counter of templates.id
    template_packages,     \* table template_packages: rows [template_id, package_name, version]
    active_sessions,       \* table active_sessions: bag of rows [template_id, env_path]
    configuration,         \* table configuration: key -> value (NULL when absent)
    columns,               \* the additive columns the file has: subset of AddedColumns
    disk,                  \* directories that exist on disk
    pc,                    \* per process: the statement a multi-statement command is at
    lastOp                 \* the last command that ran and its outcome

vars == <<environments, envSeq, labels, project_environments, comments, templates,
          tplSeq, template_packages, active_sessions, configuration, columns, disk,
          pc, lastOp>>

----------------------------------------------------------------------------
(* Input domains and bounds *)

NULL == "NULL"
\* an absent environment id: Option::None of get_env_id, SQL NULL in comments.env_id
NoId == 0

MaxEnvId == 2
MaxCount == 1
MaxTplId == 2

\* const SCHEMA_VERSION: i32 = 4
SCHEMA_VERSION == 4

Names == {"a", "b"}
Home == "/h"
PyVersions == {"3.11", "3.12"}
ProjPaths == {"/p", "/q"}
\* the tag an RPC caller passes to associate_project (links made by activation have NULL)
Tags == {"main"}
\* two processes, each with its own handle on the store file (a CLI run, the MCP server)
Procs == {"proc1", "proc2"}
Uuids == {"u1"}
RawLabels == {"ML", "ml"}
TplNames == {"t", "u"}
PkgNames == {"numpy"}
PkgVersions == {"1.0", "2.0"}
ConfigKeys == {"schema_version", "stack_info"}
\* values `zen config` can store, or an older or newer Zen has stored
ConfigValues == {"1", "3", "4", "5", "abc"}
\* columns added by ALTER TABLE after the table was first created
AddedColumns == {"install_args", "link_type"}

\* cli.home.join(name)
HomePath(n) == IF n = "a" THEN "/h/a" ELSE "/h/b"

\* paths an environment can be registered at: under home, or anywhere else
\* (registry import and scan register foreign paths)
EnvPaths == {HomePath(n) : n \in Names} \cup {"/x"}

----------------------------------------------------------------------------
(* Bag helpers: the rows of a table without a UNIQUE key *)

BagFilter(B, Keep(_)) == [r \in {x \in DOMAIN B : Keep(x)} |-> B[r]]

BagAdd(B, r) == B (+) SetToBag({r})

----------------------------------------------------------------------------
(* SQL statements, one operator per statement *)

\* SELECT id FROM environments WHERE name = ?1
get_env_id(envs, n) ==
    IF \E r \in envs : r.name = n
    THEN (CHOOSE r \in envs : r.name = n).id
    ELSE NoId

\* FOREIGN KEY(env_id) ... ON DELETE CASCADE on labels
CascadeLabels(lbls, ids) == {l \in lbls : l.env_id \notin ids}

\* FOREIGN KEY(env_id) ... ON DELETE CASCADE on project_environments
CascadeLinks(links, ids) == BagFilter(links, LAMBDA r : r.env_id \notin ids)

\* mutant: comments cascade like labels instead of keeping the note
NullComments_cascading(cms, ids) == {c \in cms : c.env_id \notin ids}

\* FOREIGN KEY(env_id) ... ON DELETE SET NULL on comments
NullComments(cms, ids) ==
    {IF c.env_id \in ids THEN [c EXCEPT !.env_id = NoId] ELSE c : c \in cms}

\* mutant: the clearing UPDATE is left out
ClearDefaults_skipped(links, p) == links

\* mutant: REPLACE resolves the UNIQUE(name) conflict only
ConflictingEnvs_nameOnly(envs, n, p) == {r \in envs : r.name = n}

\* the rows INSERT OR REPLACE deletes: those that conflict with the new row on
\* UNIQUE(name) or on UNIQUE(path)
ConflictingEnvs(envs, n, p) == {r \in envs : r.name = n \/ r.path = p}

\* mutant: the label is stored as typed
to_lowercase_skipped(l) == l

\* label.to_lowercase()
to_lowercase(l) == IF l = "ML" THEN "ml" ELSE l

\* UPDATE project_environments SET is_default = 0 WHERE project_path = ?1
ClearDefaults(links, p) ==
    BagOfAll(LAMBDA r : IF r.project_path = p THEN [r EXCEPT !.is_default = FALSE] ELSE r,
             links)

\* DELETE FROM project_environments WHERE project_path = ?1 AND env_id = ?2
DeleteLink(links, p, id) ==
    BagFilter(links, LAMBDA r : ~(r.project_path = p /\ r.env_id = id))

\* the row INSERTed by associate_project: activation_count is not listed, so it
\* takes the column's DEFAULT 0
UserLinkRow(p, id, tag, d) ==
    [project_path |-> p, env_id |-> id, is_default |-> d, tag |-> tag,
     link_type |-> "user", activation_count |-> 0]

\* the row INSERTed by record_activation: is_default DEFAULT 0, tag NULL
ActivatedLinkRow(p, id) ==
    [project_path |-> p, env_id |-> id, is_default |-> FALSE, tag |-> NULL,
     link_type |-> "activated", activation_count |-> 1]

\* mutant: the UPDATE also rewrites link_type, as the INSERT branch does
BumpCount_demoting(links, p, id) ==
    BagOfAll(LAMBDA r : IF r.project_path = p /\ r.env_id = id
                        THEN [r EXCEPT !.activation_count = @ + 1, !.link_type = "activated"]
                        ELSE r,
             links)

\* UPDATE project_environments SET activation_count = activation_count + 1
\*  WHERE project_path = ?1 AND env_id = ?2
BumpCount(links, p, id) ==
    BagOfAll(LAMBDA r : IF r.project_path = p /\ r.env_id = id
                        THEN [r EXCEPT !.activation_count = @ + 1] ELSE r,
             links)

\* rows a WHERE project_path = ?1 AND env_id = ?2 matches
LinkRows(links, p, id) == {r \in BagToSet(links) : r.project_path = p /\ r.env_id = id}

----------------------------------------------------------------------------
(* Position of a process inside a command that spans several statements *)

At(step, p, id, tag, d) == [at |-> step, p |-> p, id |-> id, tag |-> tag, d |-> d]

Idle == At("idle", NULL, NoId, NULL, FALSE)

----------------------------------------------------------------------------
(* Outcome record of a command *)

\* hit: the command found the row it names already stored
Op(name, x, y, ok) == [op |-> name, ok |-> ok, hit |-> FALSE]

----------------------------------------------------------------------------
(* Database handlers, each the whole function *)

OtherTables == <<templates, tplSeq, template_packages, active_sessions,
                 configuration, columns, disk, pc>>

\* the environments table with the tables that reference it
Rows == [environments |-> environments, labels |-> labels,
         links |-> project_environments, comments |-> comments]

SetRows(st) ==
    /\ environments' = st.environments
    /\ labels' = st.labels
    /\ project_environments' = st.links
    /\ comments' = st.comments

\* DELETE of environment rows, with the ON DELETE actions of the referencing tables
DeleteRows(st, gone) ==
    LET ids == {r.id : r \in gone}
    IN [environments |-> st.environments \ gone,
        labels |-> CascadeLabels(st.labels, ids),
        links |-> CascadeLinks(st.links, ids),
        comments |-> NullComments(st.comments, ids)]

\* INSERT OR REPLACE INTO environments: every row that conflicts on UNIQUE(name)
\* or UNIQUE(path) is deleted, then the new row is inserted under a new id
InsertOrReplaceEnv(st, id, n, p, v) ==
    LET d == DeleteRows(st, ConflictingEnvs(st.environments, n, p))
    IN [d EXCEPT !.environments =
            @ \cup {[id |-> id, name |-> n, path |-> p, python_version |-> v]}]

\* Database::register_env
register_env(n, p, v) ==
    /\ envSeq < MaxEnvId
    /\ SetRows(InsertOrReplaceEnv(Rows, envSeq + 1, n, p, v))
    /\ envSeq' = envSeq + 1
    /\ lastOp' = [Op("register_env", n, p, TRUE) EXCEPT
                      !.hit = get_env_id(environments, n) # NoId]
    /\ UNCHANGED OtherTables

\* Database::delete_env
delete_env(n) ==
    /\ SetRows(DeleteRows(Rows, {r \in environments : r.name = n}))
    /\ lastOp' = Op("delete_env", n, NULL, TRUE)
    /\ UNCHANGED <<envSeq, OtherTables>>

\* the three statements of associate_project after the env lookup
AssociateStatements(links, p, id, tag, d) ==
    LET cleared == IF d THEN ClearDefaults(links, p) ELSE links
    IN BagAdd(DeleteLink(cleared, p, id), UserLinkRow(p, id, tag, d))

\* Database::associate_project through one handle
associate_project(p, n, tag, d) ==
    LET id == get_env_id(environments, n)
    IN /\ IF id = NoId
          THEN /\ lastOp' = Op("associate_project", p, n, FALSE)
               /\ UNCHANGED project_environments
          ELSE /\ project_environments' =
                      AssociateStatements(project_environments, p, id, tag, d)
               /\ lastOp' = Op("associate_project", p, n, TRUE)
       /\ UNCHANGED <<environments, envSeq, labels, comments, OtherTables>>

\* the statements of record_activation after the env lookup
ActivationStatements(links, p, id) ==
    IF LinkRows(links, p, id) # {}
    THEN BumpCount(links, p, id)
    ELSE BagAdd(links, ActivatedLinkRow(p, id))

\* Database::record_activation
record_activation(p, n) ==
    LET id == get_env_id(environments, n)
    IN /\ IF id = NoId
          THEN /\ lastOp' = Op("record_activation", p, n, FALSE)
               /\ UNCHANGED project_environments
          ELSE /\ \A r \in LinkRows(project_environments, p, id) :
                      r.activation_count < MaxCount
               /\ project_environments' = ActivationStatements(project_environments, p, id)
               /\ lastOp' = Op("record_activation", p, n, TRUE)
       /\ UNCHANGED <<environments, envSeq, labels, comments, OtherTables>>

\* LinkCommands::Rm: get_env_id, then Database::remove_project_association
remove_project_association(p, n) ==
    LET id == get_env_id(environments, n)
    IN /\ IF id = NoId
          THEN /\ lastOp' = Op("remove_project_association", p, n, FALSE)
               /\ UNCHANGED project_environments
          ELSE /\ project_environments' = DeleteLink(project_environments, p, id)
               /\ lastOp' = Op("remove_project_association", p, n, TRUE)
       /\ UNCHANGED <<environments, envSeq, labels, comments, OtherTables>>

\* Database::remove_links_for_path
remove_links_for_path(p) ==
    /\ project_environments' =
           BagFilter(project_environments, LAMBDA r : r.project_path # p)
    /\ lastOp' = Op("remove_links_for_path", p, NULL, TRUE)
    /\ UNCHANGED <<environments, envSeq, labels, comments, OtherTables>>

\* Database::remove_activation_links(None)
remove_activation_links ==
    /\ project_environments' =
           BagFilter(project_environments, LAMBDA r : r.link_type # "activated")
    /\ lastOp' = Op("remove_activation_links", NULL, NULL, TRUE)
    /\ UNCHANGED <<environments, envSeq, labels, comments, OtherTables>>

\* Database::reset_activation_history(None)
reset_activation_history ==
    /\ project_environments' =
           BagOfAll(LAMBDA r : [r EXCEPT !.activation_count = 0], project_environments)
    /\ lastOp' = Op("reset_activation_history", NULL, NULL, TRUE)
    /\ UNCHANGED <<environments, envSeq, labels, comments, OtherTables>>

\* Database::get_default_environment: the env names of the rows the query matches
\* (LIMIT 1 returns one of them)
get_default_environment(p) ==
    {e.name : e \in {e \in environments :
        \E r \in BagToSet(project_environments) :
            r.project_path = p /\ r.is_default /\ r.env_id = e.id}}


\* Database::add_label: INSERT OR IGNORE under UNIQUE(env_id, label)
add_label(n, l) ==
    LET id == get_env_id(environments, n)
    IN /\ IF id = NoId
          THEN /\ lastOp' = Op("add_label", n, l, FALSE)
               /\ UNCHANGED labels
          ELSE /\ labels' = labels \cup {[env_id |-> id, label |-> to_lowercase(l)]}
               /\ lastOp' = Op("add_label", n, l, TRUE)
       /\ UNCHANGED <<environments, envSeq, project_environments, comments, OtherTables>>

\* ZenOps::add_env_note: get_env_id, a fresh uuid, Database::add_comment
add_env_note(n, u) ==
    LET id == get_env_id(environments, n)
    IN /\ \A c \in comments : c.uuid # u
       /\ IF id = NoId
          THEN /\ lastOp' = Op("add_env_note", n, u, FALSE)
               /\ UNCHANGED comments
          ELSE /\ comments' = comments \cup {[uuid |-> u, project_path |-> "", env_id |-> id]}
               /\ lastOp' = Op("add_env_note", n, u, TRUE)
       /\ UNCHANGED <<environments, envSeq, labels, project_environments, OtherTables>>

----------------------------------------------------------------------------
(* Templates *)

TplFrame == <<environments, envSeq, labels, project_environments, comments,
              configuration, columns, disk, pc>>

\* INSERT OR REPLACE INTO templates under UNIQUE(name, version); the replaced
\* row takes its template_packages and active_sessions with it (ON DELETE CASCADE)
TemplateStatement(name, version, py) ==
    LET gone == {t \in templates : t.name = name /\ t.version = version}
        ids  == {t.id : t \in gone}
    IN /\ templates' = (templates \ gone) \cup
             {[id |-> tplSeq + 1, name |-> name, version |-> version,
               python_version |-> py]}
       /\ tplSeq' = tplSeq + 1
       /\ template_packages' = {r \in template_packages : r.template_id \notin ids}
       /\ active_sessions' =
              BagFilter(active_sessions, LAMBDA r : r.template_id \notin ids)

\* Database::create_template
create_template(name, version, py) ==
    /\ tplSeq < MaxTplId
    /\ TemplateStatement(name, version, py)
    /\ lastOp' = [Op("create_template", name, version, TRUE) EXCEPT !.hit =
                     \E t \in templates : t.name = name /\ t.version = version]
    /\ UNCHANGED TplFrame

\* Database::add_template_package: INSERT OR REPLACE under
\* UNIQUE(template_id, package_name); the statement names the install_args
\* column and the FOREIGN KEY wants the template row
add_template_package(tid, name, version) ==
    /\ IF "install_args" \in columns /\ \E t \in templates : t.id = tid
       THEN /\ template_packages' =
                   {r \in template_packages :
                        ~(r.template_id = tid /\ r.package_name = name)}
                   \cup {[template_id |-> tid, package_name |-> name, version |-> version]}
            /\ lastOp' = [Op("add_template_package", tid, name, TRUE) EXCEPT !.hit =
                   \E r \in template_packages :
                       r.template_id = tid /\ r.package_name = name]
       ELSE /\ lastOp' = Op("add_template_package", tid, name, FALSE)
            /\ UNCHANGED template_packages
    /\ UNCHANGED <<templates, tplSeq, active_sessions, TplFrame>>

----------------------------------------------------------------------------
(* Opening the store file *)

DigitStrings == <<"1", "2", "3", "4", "5">>

\* v.parse::<i32>().ok()  ... .unwrap_or(1): a missing or unparseable value is v1
StoredVersion(v) ==
    IF \E i \in DOMAIN DigitStrings : DigitStrings[i] = v
    THEN CHOOSE i \in DOMAIN DigitStrings : DigitStrings[i] = v
    ELSE 1

\* mutant: any stored version other than the current one is rewritten
check_schema_version_resetting(cfg) ==
    IF StoredVersion(cfg["schema_version"]) # SCHEMA_VERSION
    THEN [cfg EXCEPT !["schema_version"] = DigitStrings[SCHEMA_VERSION]]
    ELSE cfg

\* Database::check_schema_version
check_schema_version(cfg) ==
    IF StoredVersion(cfg["schema_version"]) < SCHEMA_VERSION
    THEN [cfg EXCEPT !["schema_version"] = DigitStrings[SCHEMA_VERSION]]
    ELSE cfg

\* init_schema, v4 migration: ALTER TABLE project_environments ADD COLUMN
\* link_type TEXT DEFAULT 'user', activation_count INTEGER DEFAULT 0
AddLinkColumns(links) ==
    BagOfAll(LAMBDA r : [project_path |-> r.project_path, env_id |-> r.env_id,
                         is_default |-> r.is_default, tag |-> r.tag,
                         link_type |-> "user", activation_count |-> 0],
             links)

\* Database::open on an existing file: init_schema, then check_schema_version.
\* The ALTER for install_args comes before CREATE TABLE template_packages, so it
\* takes effect on every open but the one that creates the file.
open ==
    /\ columns' = AddedColumns
    /\ project_environments' =
           IF "link_type" \in columns THEN project_environments
           ELSE AddLinkColumns(project_environments)
    /\ configuration' = check_schema_version(configuration)
    /\ lastOp' = [Op("open", NULL, NULL, TRUE) EXCEPT !.hit = lastOp.op = "open"]
    /\ UNCHANGED <<environments, envSeq, labels, comments, templates, tplSeq,
                   template_packages, active_sessions, disk, pc>>

\* Database::set_config (zen config <key> <value>)
set_config(k, v) ==
    /\ configuration' = [configuration EXCEPT ![k] = v]
    /\ lastOp' = Op("set_config", k, v, TRUE)
    /\ UNCHANGED <<environments, envSeq, labels, project_environments, comments,
                   templates, tplSeq, template_packages, active_sessions, columns,
                   disk, pc>>

----------------------------------------------------------------------------
\* the store file right after it was created
FreshStore ==
    /\ environments = {}
    /\ envSeq = 0
    /\ labels = {}
    /\ project_environments = EmptyBag
    /\ comments = {}
    /\ templates = {}
    /\ tplSeq = 0
    /\ template_packages = {}
    /\ active_sessions = EmptyBag
    /\ configuration = [k \in ConfigKeys |-> IF k = "schema_version" THEN "4" ELSE NULL]
    /\ columns = {"link_type"}
    /\ disk = {}
    /\ pc = [h \in Procs |-> Idle]

Init ==
    /\ FreshStore
    /\ lastOp = Op("open", NULL, NULL, TRUE)

Next ==
    \/ \E n \in Names : register_env(n, HomePath(n), "3.12")
    \/ \E n \in Names : delete_env(n)
    \/ \E p \in ProjPaths, n \in Names, t \in Tags, d \in BOOLEAN : associate_project(p, n, t, d)
    \/ \E p \in ProjPaths, n \in Names : record_activation(p, n)
    \/ \E p \in ProjPaths, n \in Names : remove_project_association(p, n)
    \/ \E p \in ProjPaths : remove_links_for_path(p)
    \/ remove_activation_links
    \/ reset_activation_history

Spec == Init /\ [][Next]_vars

----------------------------------------------------------------------------
(* Properties of project links through one handle *)

\* number of rows of project p flagged is_default
DefaultCount(links, p) ==
    BagCardinality(BagFilter(links, LAMBDA r : r.project_path = p /\ r.is_default))

\* rows of the table other than those of the pair (p, id)
OtherLinks(links, p, id) ==
    BagFilter(links, LAMBDA r : ~(r.project_path = p /\ r.env_id = id))

\* the activation_count stored for the pair (p, id); 0 when it has no row
CountOf(links, p, id) ==
    IF LinkRows(links, p, id) = {} THEN 0
    ELSE (CHOOSE r \in LinkRows(links, p, id) :
              \A q \in LinkRows(links, p, id) : q.activation_count <= r.activation_count
         ).activation_count

LinkIds(links) == {r.env_id : r \in BagToSet(links)}

AtMostOneDefault == \A p \in ProjPaths : DefaultCount(project_environments, p) <= 1

\* C1: through one handle every project path has at most one default link, and
\* right after a successful associate_project(p, e, tag, true) the one default
\* link of p is the link to e, which get_default_environment(p) returns.
C1_DefaultExclusive ==
    /\ []AtMostOneDefault
    /\ [][\A p \in ProjPaths, n \in Names, t \in Tags :
            (associate_project(p, n, t, TRUE) /\ lastOp'.ok) =>
                /\ DefaultCount(project_environments', p) = 1
                /\ \A r \in BagToSet(project_environments') :
                      (r.project_path = p /\ r.is_default) =>
                          r.env_id = get_env_id(environments', n)
                /\ get_default_environment(p)' = {n}]_vars

\* a default link was just set for a project that keeps a second, non-default link
C1_Witness ==
    /\ lastOp = Op("associate_project", NULL, NULL, TRUE)
    /\ \E p \in ProjPaths :
          /\ DefaultCount(project_environments, p) = 1
          /\ \E r \in BagToSet(project_environments) :
                r.project_path = p /\ ~r.is_default /\ r.link_type = "user"

\* C3: record_activation(p, e) on an existing link adds exactly 1 to its count and
\* keeps link_type, is_default and tag; without a link it inserts one 'activated'
\* link with count 1; every other link is unchanged.
C3_ActivationUpsert ==
    [][\A p \in ProjPaths, n \in Names :
        (record_activation(p, n) /\ lastOp'.ok) =>
            LET id  == get_env_id(environments, n)
                old == LinkRows(project_environments, p, id)
                new == LinkRows(project_environments', p, id)
            IN /\ OtherLinks(project_environments', p, id) =
                      OtherLinks(project_environments, p, id)
               /\ old = {} =>
                     /\ new = {[project_path |-> p, env_id |-> id, is_default |-> FALSE,
                                tag |-> NULL, link_type |-> "activated",
                                activation_count |-> 1]}
                     /\ BagCardinality(project_environments') =
                            BagCardinality(project_environments) + 1
               /\ old # {} =>
                     /\ new = {[r EXCEPT !.activation_count = r.activation_count + 1] :
                                  r \in old}
                     /\ BagCardinality(project_environments') =
                            BagCardinality(project_environments)]_vars

\* an activation was just recorded on an explicit user link, which kept its tag
C3_Witness ==
    /\ lastOp = Op("record_activation", NULL, NULL, TRUE)
    /\ \E r \in BagToSet(project_environments) :
          r.link_type = "user" /\ r.activation_count = 1 /\ r.tag = "main"
    /\ \E r \in BagToSet(project_environments) :
          r.link_type = "activated" /\ r.activation_count = 1

\* C4: across associate_project and record_activation calls the count stored for
\* a (project_path, env) pair never decreases.
C4_CountMonotone ==
    [][lastOp'.op \in {"associate_project", "record_activation"} =>
          \A p \in ProjPaths, id \in LinkIds(project_environments) :
              CountOf(project_environments', p, id) >=
                  CountOf(project_environments, p, id)]_vars

----------------------------------------------------------------------------
(* Two handles on the same store file (the CLI process and the MCP server each *)
(* open their own connection): associate_project statement by statement.  Each *)
(* statement autocommits; the mutex of a handle does not exclude the other      *)
(* handle.                                                                      *)

ConcFrame == <<envSeq, templates, tplSeq, template_packages, active_sessions,
               configuration, columns, disk>>

\* associate_project: get_env_id(env_name)?.ok_or_else(...)
AssocBegin(h, p, n, tag, d) ==
    /\ pc[h] = Idle
    /\ LET id == get_env_id(environments, n)
       IN IF id = NoId
          THEN /\ lastOp' = Op("associate_project", p, n, FALSE)
               /\ UNCHANGED pc
          ELSE /\ pc' = [pc EXCEPT ![h] = At(IF d THEN "clear" ELSE "delete", p, id, tag, d)]
               /\ UNCHANGED lastOp
    /\ UNCHANGED <<environments, labels, project_environments, comments, ConcFrame>>

\* associate_project: if is_default { UPDATE ... SET is_default = 0 ... }
AssocClear(h) ==
    /\ pc[h].at = "clear"
    /\ project_environments' = ClearDefaults(project_environments, pc[h].p)
    /\ pc' = [pc EXCEPT ![h].at = "delete"]
    /\ UNCHANGED <<environments, labels, comments, lastOp, ConcFrame>>

\* associate_project: DELETE FROM project_environments WHERE project_path AND env_id
AssocDelete(h) ==
    /\ pc[h].at = "delete"
    /\ project_environments' = DeleteLink(project_environments, pc[h].p, pc[h].id)
    /\ pc' = [pc EXCEPT ![h].at = "insert"]
    /\ UNCHANGED <<environments, labels, comments, lastOp, ConcFrame>>

\* associate_project: INSERT INTO project_environments ...; the FOREIGN KEY
\* rejects the row when the environment was replaced after the lookup
AssocInsert(h) ==
    /\ pc[h].at = "insert"
    /\ IF \E e \in environments : e.id = pc[h].id
       THEN /\ project_environments' =
                   BagAdd(project_environments,
                          UserLinkRow(pc[h].p, pc[h].id, pc[h].tag, pc[h].d))
            /\ lastOp' = Op("associate_project", pc[h].p, NULL, TRUE)
       ELSE /\ lastOp' = Op("associate_project", pc[h].p, NULL, FALSE)
            /\ UNCHANGED project_environments
    /\ pc' = [pc EXCEPT ![h] = Idle]
    /\ UNCHANGED <<environments, labels, comments, ConcFrame>>

NextConc ==
    \/ \E n \in Names : register_env(n, HomePath(n), "3.12")
    \/ \E h \in Procs, p \in ProjPaths, n \in Names, t \in Tags, d \in BOOLEAN :
          AssocBegin(h, p, n, t, d)
    \/ \E h \in Procs : AssocClear(h)
    \/ \E h \in Procs : AssocDelete(h)
    \/ \E h \in Procs : AssocInsert(h)

SpecConc == Init /\ [][NextConc]_vars

\* C2: with two handles interleaving associate_project(p, e1, _, true) and
\* associate_project(p, e2, _, true), no state holds default links of p to two
\* environments.
C2_NoTwoDefaults ==
    \A p \in ProjPaths :
        Cardinality({r.env_id : r \in {r \in BagToSet(project_environments) :
                                          r.project_path = p /\ r.is_default}}) <= 1

----------------------------------------------------------------------------
(* The environment table with its dependants, through one handle *)

NextReg ==
    \/ \E n \in Names, pn \in Names, v \in PyVersions : register_env(n, HomePath(pn), v)
    \/ \E n \in Names : delete_env(n)
    \/ \E n \in Names, l \in RawLabels : add_label(n, l)
    \/ \E n \in Names, u \in Uuids : add_env_note(n, u)
    \/ \E n \in Names : record_activation("/p", n)

SpecReg == Init /\ [][NextReg]_vars

UniqueEnvs ==
    \A r, q \in environments : (r.name = q.name \/ r.path = q.path) => r = q

\* C6: no two environments share a name or a path, and register_env(n, p, v) on a
\* registered name leaves exactly one environment named n, with path p and
\* Python version v.
C6_RegisterUpsert ==
    /\ []UniqueEnvs
    /\ [][\A n \in Names, pn \in Names, v \in PyVersions :
            register_env(n, HomePath(pn), v) =>
                /\ Cardinality({r \in environments' : r.name = n}) = 1
                /\ \A r \in environments' :
                      r.name = n => r.path = HomePath(pn) /\ r.python_version = v]_vars

\* a registered name was just registered again, with another path and version
C6_Witness ==
    /\ lastOp.op = "register_env" /\ lastOp.hit
    /\ \E r \in environments :
          r.name = "a" /\ r.id = 2 /\ r.path = "/h/b" /\ r.python_version = "3.11"

\* what is attached to the environment named n: its labels, the project paths
\* linked to it, the notes that refer to it
Attached(envs, lbls, links, cms, n) ==
    LET id == get_env_id(envs, n)
    IN [labels |-> {l.label : l \in {x \in lbls : x.env_id = id}},
        links  |-> {r.project_path : r \in {x \in BagToSet(links) : x.env_id = id}},
        notes  |-> {c.uuid : c \in {x \in cms : x.env_id = id}}]

\* C28: register_env(n, p, v) keeps the labels, links and note references of n
\* when n was registered already, and removes or alters no environment
\* registered under another name, also when p is that environment's path.
C28_RegisterFrame ==
    [][\A n \in Names, pn \in Names, v \in PyVersions :
          register_env(n, HomePath(pn), v) =>
              /\ get_env_id(environments, n) # NoId =>
                    Attached(environments', labels', project_environments', comments', n)
                       = Attached(environments, labels, project_environments, comments, n)
              /\ \A r \in environments : r.name # n => r \in environments']_vars

\* C7: after delete_env(name) no label and no link of that environment remains,
\* each of its notes is still there with a null env reference, and the labels,
\* links and notes of the other environments are unchanged.
C7_DeleteCascade ==
    [][\A n \in Names :
        (delete_env(n) /\ get_env_id(environments, n) # NoId) =>
            LET id == get_env_id(environments, n)
            IN /\ \A l \in labels' : l.env_id # id
               /\ \A r \in BagToSet(project_environments') : r.env_id # id
               /\ \A c \in comments :
                     c.env_id = id => [c EXCEPT !.env_id = NoId] \in comments'
               /\ {c.uuid : c \in comments'} = {c.uuid : c \in comments}
               /\ {l \in labels' : l.env_id # id} = {l \in labels : l.env_id # id}
               /\ CascadeLinks(project_environments', {id}) =
                      CascadeLinks(project_environments, {id})
               /\ {c \in comments : c.env_id # id} \subseteq comments'
               /\ \A r \in environments : r.name # n => r \in environments']_vars

\* an environment that had a label, a link and a note was just deleted: the note
\* is kept without env reference, and the other environment keeps its label
C7_Witness ==
    /\ lastOp = Op("delete_env", NULL, NULL, TRUE)
    /\ \E c \in comments : c.env_id = NoId
    /\ Cardinality(environments) = 1
    /\ labels # {}
    /\ project_environments # EmptyBag

----------------------------------------------------------------------------
(* Labels, template packages and project links through one handle *)

NextDedup ==
    \/ \E n \in Names : register_env(n, HomePath(n), "3.12")
    \/ \E n \in Names, l \in RawLabels : add_label(n, l)
    \/ \E n \in Names : associate_project("/p", n, "main", TRUE)
    \/ \E n \in Names : record_activation("/p", n)
    \/ create_template("t", "latest", "3.12")
    \/ \E tid \in 1..MaxTplId, k \in PkgNames, v \in PkgVersions :
          add_template_package(tid, k, v)
    \/ open

SpecDedup == Init /\ [][NextDedup]_vars

\* the spelling under which two label texts count as the same label
Folded(l) == IF l \in RawLabels THEN "ml" ELSE l

OneRowPerKey ==
    /\ \A l, m \in labels :
          (l.env_id = m.env_id /\ Folded(l.label) = Folded(m.label)) => l = m
    /\ \A r, q \in template_packages :
          (r.template_id = q.template_id /\ r.package_name = q.package_name) => r = q
    /\ \A r \in BagToSet(project_environments) :
          BagCardinality(BagFilter(project_environments,
              LAMBDA q : q.project_path = r.project_path /\ q.env_id = r.env_id)) = 1

\* C5: through one handle the store holds at most one row per (env, lowercased
\* label), per (template, package name) and per (project_path, env), and an
\* insert whose key is already stored leaves the number of rows unchanged.
C5_DedupIdentity ==
    /\ []OneRowPerKey
    /\ [][/\ \A n \in Names, l \in RawLabels :
               (add_label(n, l) /\
                  \E r \in labels : r.env_id = get_env_id(environments, n)
                                    /\ Folded(r.label) = Folded(l))
               => Cardinality(labels') = Cardinality(labels)
          /\ \A tid \in 1..MaxTplId, k \in PkgNames, v \in PkgVersions :
               (add_template_package(tid, k, v) /\ lastOp'.hit)
               => Cardinality(template_packages') = Cardinality(template_packages)
          /\ \A n \in Names :
               ((associate_project("/p", n, "main", TRUE) \/ record_activation("/p", n))
                  /\ LinkRows(project_environments, "/p", get_env_id(environments, n)) # {})
               => BagCardinality(project_environments') =
                      BagCardinality(project_environments)]_vars

\* a package of a template was just stored again with another version, while an
\* environment carries a label entered in both spellings and a link that was
\* both associated and activated
C5_Witness ==
    /\ lastOp.op = "add_template_package" /\ lastOp.hit
    /\ \E r \in template_packages : r.version = "2.0"
    /\ labels # {}
    /\ \E r \in BagToSet(project_environments) :
          r.link_type = "user" /\ r.activation_count = 1

----------------------------------------------------------------------------
(* Opening a store file written by this or another build of Zen *)

\* the rows of a store that has been in use: one environment with a label, a
\* note and a project link, and one template with a package
LegacyLinks(cols) ==
    IF "link_type" \in cols
    THEN SetToBag({ActivatedLinkRow("/p", 1)})
    ELSE SetToBag({[project_path |-> "/p", env_id |-> 1, is_default |-> TRUE,
                    tag |-> "main"]})

InitOpen ==
    /\ \E v \in {NULL, "1", "3", "4", "5"} :
          configuration = [k \in ConfigKeys |-> IF k = "schema_version" THEN v ELSE NULL]
    /\ columns \in SUBSET AddedColumns
    /\ \/ /\ environments = {} /\ envSeq = 0 /\ labels = {} /\ comments = {}
          /\ project_environments = EmptyBag
          /\ templates = {} /\ tplSeq = 0 /\ template_packages = {}
       \/ /\ environments = {[id |-> 1, name |-> "a", path |-> HomePath("a"),
                              python_version |-> "3.12"]}
          /\ envSeq = 1
          /\ labels = {[env_id |-> 1, label |-> "ml"]}
          /\ comments = {[uuid |-> "u1", project_path |-> "", env_id |-> 1]}
          /\ project_environments = LegacyLinks(columns)
          /\ templates = {[id |-> 1, name |-> "t", version |-> "latest",
                           python_version |-> "3.12"]}
          /\ tplSeq = 1
          /\ template_packages = {[template_id |-> 1, package_name |-> "numpy",
                                   version |-> "1.0"]}
    /\ active_sessions = EmptyBag
    /\ disk = {}
    /\ pc = [h \in Procs |-> Idle]
    /\ lastOp = Op("closed", NULL, NULL, TRUE)

NextOpen ==
    \/ open
    \/ \E k \in ConfigKeys, v \in ConfigValues : set_config(k, v)

SpecOpen == InitOpen /\ [][NextOpen]_vars

\* the columns every build has written
LinkCore(links) ==
    BagOfAll(LAMBDA r : [project_path |-> r.project_path, env_id |-> r.env_id,
                         is_default |-> r.is_default, tag |-> r.tag],
             links)

AtLeastCurrent(v) ==
    \E i \in SCHEMA_VERSION..Len(DigitStrings) : v = DigitStrings[i]

BelowCurrent(v) ==
    v = NULL \/ \E i \in 1..(SCHEMA_VERSION - 1) : v = DigitStrings[i]

\* C8: after an open the stored schema_version is at least 4: a missing or lower
\* value has become 4, a higher value is unchanged; an open that follows an open
\* changes nothing, and no open removes or alters an environment, label, link,
\* note, template, template package or other configuration row.
C8_OpenVersion ==
    [][open =>
        LET old == configuration["schema_version"]
            new == configuration'["schema_version"]
        IN /\ AtLeastCurrent(new)
           /\ BelowCurrent(old) => new = DigitStrings[SCHEMA_VERSION]
           /\ AtLeastCurrent(old) => new = old
           /\ lastOp.op = "open" =>
                 /\ new = old
                 /\ project_environments' = project_environments
                 /\ columns' = columns
           /\ environments' = environments
           /\ labels' = labels
           /\ comments' = comments
           /\ templates' = templates
           /\ template_packages' = template_packages
           /\ LinkCore(project_environments') = LinkCore(project_environments)
           /\ BagCardinality(project_environments') = BagCardinality(project_environments)
           /\ \A k \in ConfigKeys \ {"schema_version"} :
                 configuration'[k] = configuration[k]]_vars

\* a store written by a newer build, holding rows, was opened twice in a row
C8_Witness ==
    /\ lastOp.op = "open" /\ lastOp.hit
    /\ configuration["schema_version"] = "5"
    /\ environments # {} /\ labels # {} /\ comments # {} /\ templates # {}
    /\ \E r \in BagToSet(project_environments) : r.link_type = "activated"

\* a store without schema_version and without the v4 link columns was opened
C8_Upgraded ==
    /\ lastOp.op = "open" /\ ~lastOp.hit
    /\ configuration["schema_version"] = "4"
    /\ \E r \in BagToSet(project_environments) : r.link_type = "user" /\ r.tag = "main"

----------------------------------------------------------------------------
(* Template recording sessions; every zen command is a process with its own
   connection to the store file *)

\* std::env::temp_dir().join(format!("zen_tpl_{}_{}", t_name, t_ver))
TmpEnv(name, version) == <<"zen_tpl", name, version>>

SessionFrame == <<environments, envSeq, labels, project_environments, comments,
                  configuration, columns, disk>>

\* zen template create, up to the guard: db.get_active_session()?.is_some()
TplCheck(h, name) ==
    /\ pc[h] = Idle
    /\ IF active_sessions # EmptyBag
       THEN /\ lastOp' = Op("template_create", name, NULL, FALSE)
            /\ UNCHANGED pc
       ELSE /\ pc' = [pc EXCEPT ![h] = At("tpl_checked", name, NoId, NULL, FALSE)]
            /\ UNCHANGED lastOp
    /\ UNCHANGED <<templates, tplSeq, template_packages, active_sessions, SessionFrame>>

\* ... db.create_template(t_name, t_ver, &python)
TplCreateTemplate(h) ==
    /\ pc[h].at = "tpl_checked"
    /\ tplSeq < MaxTplId
    /\ TemplateStatement(pc[h].p, "latest", "3.12")
    /\ pc' = [pc EXCEPT ![h] = At("tpl_created", pc[h].p, tplSeq + 1, NULL, FALSE)]
    /\ UNCHANGED <<lastOp, SessionFrame>>

\* ... the venv command, and db.start_session(temp_id, env_str) if it succeeded;
\* the INSERT fails on the FOREIGN KEY when the template row is gone
TplStartSession(h, venv_ok) ==
    /\ pc[h].at = "tpl_created"
    /\ IF venv_ok /\ \E t \in templates : t.id = pc[h].id
       THEN /\ active_sessions' =
                   BagAdd(active_sessions,
                          [template_id |-> pc[h].id, env_path |-> TmpEnv(pc[h].p, "latest")])
            /\ lastOp' = Op("template_create", pc[h].p, NULL, TRUE)
       ELSE /\ lastOp' = Op("template_create", pc[h].p, NULL, FALSE)
            /\ UNCHANGED active_sessions
    /\ pc' = [pc EXCEPT ![h] = Idle]
    /\ UNCHANGED <<templates, tplSeq, template_packages, SessionFrame>>

\* zen install during a session: get_active_session (SELECT ... LIMIT 1), then
\* add_template_package for the session's template
SessionInstall(k, v) ==
    /\ \E s \in BagToSet(active_sessions) :
          IF "install_args" \in columns
          THEN /\ template_packages' =
                      {r \in template_packages :
                           ~(r.template_id = s.template_id /\ r.package_name = k)}
                      \cup {[template_id |-> s.template_id, package_name |-> k,
                             version |-> v]}
               /\ lastOp' = Op("install", k, v, TRUE)
          ELSE /\ lastOp' = Op("install", k, v, FALSE)
               /\ UNCHANGED template_packages
    /\ UNCHANGED <<templates, tplSeq, active_sessions, pc, SessionFrame>>

\* zen template save: nothing is cleared while the session's template has no
\* package; otherwise clear_sessions (DELETE FROM active_sessions)
TemplateSave ==
    /\ IF active_sessions = EmptyBag
       THEN /\ lastOp' = Op("template_save", NULL, NULL, FALSE)
            /\ UNCHANGED active_sessions
       ELSE \E s \in BagToSet(active_sessions) :
               IF \E r \in template_packages : r.template_id = s.template_id
               THEN /\ active_sessions' = EmptyBag
                    /\ lastOp' = Op("template_save", NULL, NULL, TRUE)
               ELSE /\ lastOp' = Op("template_save", NULL, NULL, FALSE)
                    /\ UNCHANGED active_sessions
    /\ UNCHANGED <<templates, tplSeq, template_packages, pc, SessionFrame>>

\* zen template exit
TemplateExit ==
    /\ active_sessions' = EmptyBag
    /\ lastOp' = Op("template_exit", NULL, NULL, active_sessions # EmptyBag)
    /\ UNCHANGED <<templates, tplSeq, template_packages, pc, SessionFrame>>

NextSession ==
    \/ open
    \/ \E h \in Procs, t \in TplNames : TplCheck(h, t)
    \/ \E h \in Procs : TplCreateTemplate(h)
    \/ \E h \in Procs, venv_ok \in BOOLEAN : TplStartSession(h, venv_ok)
    \/ \E k \in PkgNames, v \in PkgVersions : SessionInstall(k, v)
    \/ TemplateSave
    \/ TemplateExit

SpecSession == Init /\ [][NextSession]_vars

\* C9: under any sequence of template create, save and exit, two creates running
\* concurrently included, the recording-session table holds at most one row.
C9_OneSession == BagCardinality(active_sessions) <= 1

\* C11: a recording-session start for a (name, version) pair that is already in
\* the registry is refused and leaves the template row and its packages unchanged.
C11_TemplateConflict ==
    [][\A h \in Procs :
          (TplCreateTemplate(h)
             /\ \E t \in templates : t.name = pc[h].p /\ t.version = "latest")
          => /\ templates' = templates
             /\ template_packages' = template_packages]_vars

----------------------------------------------------------------------------
(* Creating environments: the CLI command and the RPC tool *)

CreateFrame == <<templates, tplSeq, template_packages, active_sessions,
                 configuration, columns, pc>>

Rejected(name, n) ==
    /\ lastOp' = [Op(name, n, NULL, FALSE) EXCEPT
                      !.hit = get_env_id(environments, n) # NoId]
    /\ UNCHANGED <<environments, envSeq, labels, project_environments, comments, disk>>

\* Commands::Create: the name guard over list_envs (with --rm: ops.remove_env),
\* the directory guard, the venv command, register_env
CliCreate(n, v, rm, venv_ok) ==
    LET old      == {r \in environments : r.name = n}
        env_path == HomePath(n)
        st1      == DeleteRows(Rows, old)
        disk1    == disk \ {r.path : r \in old}
    IN /\ envSeq < MaxEnvId
       /\ IF old # {} /\ ~rm THEN Rejected("cli_create", n)
          ELSE IF env_path \in disk1 /\ ~rm THEN Rejected("cli_create", n)
          ELSE IF venv_ok
               THEN /\ SetRows(InsertOrReplaceEnv(st1, envSeq + 1, n, env_path, v))
                    /\ envSeq' = envSeq + 1
                    /\ disk' = disk1 \cup {env_path}
                    /\ lastOp' = [Op("cli_create", n, v, TRUE) EXCEPT !.hit = old # {}]
               ELSE /\ SetRows(st1)
                    /\ disk' = disk1 \ {env_path}
                    /\ lastOp' = [Op("cli_create", n, v, FALSE) EXCEPT !.hit = old # {}]
                    /\ UNCHANGED envSeq
       /\ UNCHANGED CreateFrame

\* ZenMcp::create_environment -> ZenOps::create_env: the only guard is
\* env_path.exists(); then the venv command and register_env
RpcCreate(n, v, venv_ok) ==
    LET env_path == HomePath(n)
    IN /\ envSeq < MaxEnvId
       /\ IF env_path \in disk THEN Rejected("rpc_create", n)
          ELSE IF venv_ok
               THEN /\ SetRows(InsertOrReplaceEnv(Rows, envSeq + 1, n, env_path, v))
                    /\ envSeq' = envSeq + 1
                    /\ disk' = disk \cup {env_path}
                    /\ lastOp' = [Op("rpc_create", n, v, TRUE) EXCEPT
                                      !.hit = get_env_id(environments, n) # NoId]
               ELSE /\ lastOp' = [Op("rpc_create", n, v, FALSE) EXCEPT
                                      !.hit = get_env_id(environments, n) # NoId]
                    /\ UNCHANGED <<environments, envSeq, labels, project_environments,
                                   comments, disk>>
       /\ UNCHANGED CreateFrame

NextCreate ==
    \/ \E n \in Names, v \in PyVersions, rm \in BOOLEAN, venv_ok \in BOOLEAN :
          CliCreate(n, v, rm, venv_ok)
    \/ \E n \in Names, v \in PyVersions, venv_ok \in BOOLEAN : RpcCreate(n, v, venv_ok)
    \/ \E n \in Names, p \in EnvPaths, v \in PyVersions : register_env(n, p, v)
    \/ \E n \in Names, l \in RawLabels : add_label(n, l)
    \/ \E n \in Names : associate_project("/p", n, "main", TRUE)

SpecCreate == Init /\ [][NextCreate]_vars

CreateLeftAlone ==
    /\ ~lastOp'.ok
    /\ environments' = environments
    /\ labels' = labels
    /\ project_environments' = project_environments
    /\ disk' = disk

\* C10: a create without --rm of a name that is registered is rejected on the
\* CLI path and on the RPC path, and leaves the environment row, its labels and
\* links and the directories on disk unchanged.
C10_CreateRejected ==
    [][\A n \in Names, v \in PyVersions, venv_ok \in BOOLEAN :
          ((CliCreate(n, v, FALSE, venv_ok) \/ RpcCreate(n, v, venv_ok))
             /\ get_env_id(environments, n) # NoId)
          => CreateLeftAlone]_vars

\* the CLI half of C10 on its own
CliCreateRejected ==
    [][\A n \in Names, v \in PyVersions, venv_ok \in BOOLEAN :
          (CliCreate(n, v, FALSE, venv_ok) /\ get_env_id(environments, n) # NoId)
          => CreateLeftAlone]_vars

----------------------------------------------------------------------------
(* Pure functions: a call leaves the store alone and records its input and
   result in lastOp *)

StoreVars == <<environments, envSeq, labels, project_environments, comments,
               templates, tplSeq, template_packages, active_sessions,
               configuration, columns, disk, pc>>

RECURSIVE SeqsUpTo(_, _)
\* all sequences over S of length at most n
SeqsUpTo(S, n) ==
    IF n = 0 THEN {<<>>}
    ELSE LET shorter == SeqsUpTo(S, n - 1)
         IN shorter \cup {Append(q, c) : q \in shorter, c \in S}

----------------------------------------------------------------------------
(* Name validation *)

MaxNameLen == 3

\* name.len() > 128
NAME_LIMIT == 128

\* characters a name is drawn from: a letter, white space, a dot, a path
\* separator and a shell metacharacter
NameChars == {"a", " ", ".", "/", ";"}

NameStrings == SeqsUpTo(NameChars, MaxNameLen)

\* const FORBIDDEN: &[char]
FORBIDDEN == {";"}

RECURSIVE trim_start(_)
trim_start(s) == IF s # <<>> /\ Head(s) = " " THEN trim_start(Tail(s)) ELSE s

RECURSIVE trim_end(_)
trim_end(s) ==
    IF s # <<>> /\ s[Len(s)] = " " THEN trim_end(SubSeq(s, 1, Len(s) - 1)) ELSE s

\* str::trim
trim(s) == trim_end(trim_start(s))

\* str::contains(char)
contains(s, c) == \E i \in 1..Len(s) : s[i] = c

\* name.contains("..")
contains_dotdot(s) == \E i \in 1..(Len(s) - 1) : s[i] = "." /\ s[i + 1] = "."

\* str::starts_with
starts_with(s, p) == Len(s) >= Len(p) /\ SubSeq(s, 1, Len(p)) = p

\* the checks validate_name and EnvName::new share, on the trimmed name
NameReason(name) ==
    IF name = <<>> THEN "empty"
    ELSE IF Len(name) > NAME_LIMIT THEN "too long"
    ELSE IF contains(name, "/") \/ contains_dotdot(name) THEN "path characters"
    ELSE IF \E i \in 1..Len(name) : name[i] \in FORBIDDEN THEN "invalid characters"
    ELSE IF Head(name) = "." THEN "leading dot"
    ELSE "ok"

\* validation::validate_name: let name = name.trim(); ...
validate_name(s) == NameReason(trim(s)) = "ok"

\* types::EnvName::new: Ok(Self(trimmed)), and EnvName::as_str
EnvName_new(s) ==
    IF NameReason(trim(s)) = "ok" THEN [ok |-> TRUE, as_str |-> trim(s)]
    ELSE [ok |-> FALSE, as_str |-> <<>>]

\* one string through both validators
ValidateName(s) ==
    /\ lastOp' = [op |-> "validate_name", in |-> s, ok |-> validate_name(s),
                  env |-> EnvName_new(s)]
    /\ UNCHANGED StoreVars

NextName == \E s \in NameStrings : ValidateName(s)

SpecName == Init /\ [][NextName]_vars

\* the rules as listed, read on the string itself
ListedRules(s) ==
    /\ s # <<>>
    /\ Len(s) <= NAME_LIMIT
    /\ ~contains(s, "/") /\ ~contains_dotdot(s)
    /\ \A i \in 1..Len(s) : s[i] \notin FORBIDDEN
    /\ Head(s) # "."

\* C12: validate_name(s) and EnvName::new(s) agree and accept s iff s satisfies
\* the listed rules, and an accepted name is handed back unchanged.
C12_NameTotal ==
    lastOp.op = "validate_name" =>
        /\ lastOp.ok = lastOp.env.ok
        /\ lastOp.ok = ListedRules(lastOp.in)
        /\ lastOp.env.ok => lastOp.env.as_str = lastOp.in

----------------------------------------------------------------------------
(* Activation resolver: zen activate without a name *)

\* directories as component sequences: the root is << >>
ProjDir == <<"w", "proj">>
SubDir == <<"w", "proj", "sub">>
DeepDir == <<"w", "proj", "sub", "x">>

\* std::env::var("HOME")
HOME_DIR == <<"home", "u">>

\* stop_dirs: "/", "/tmp", "/home", "/root"
stop_dirs == {<< >>, <<"tmp">>, <<"home">>, <<"root">>}

\* Path::parent of a directory other than the root
Parent(p) == SubSeq(p, 1, Len(p) - 1)

\* SELECT ... FROM project_environments pe JOIN environments e ON pe.env_id = e.id
JoinRows(links, envs) ==
    {[name |-> e.name, path |-> e.path, project_path |-> r.project_path,
      count |-> r.activation_count, link_type |-> r.link_type,
      is_default |-> r.is_default] :
        <<r, e>> \in {x \in BagToSet(links) \X envs : x[1].env_id = x[2].id}}

\* ORDER BY pe.is_default DESC, pe.activation_count DESC (then recency)
RankedBefore(r, q) ==
    \/ r.is_default /\ ~q.is_default
    \/ r.is_default = q.is_default /\ r.count >= q.count

\* the orders in which a query can hand back the rows S
Ordered(S) ==
    {q \in [1..Cardinality(S) -> S] :
        /\ \A i, j \in 1..Cardinality(S) : i # j => q[i] # q[j]
        /\ \A i, j \in 1..Cardinality(S) : i < j => RankedBefore(q[i], q[j])}

\* Database::get_activation_candidates(&[path]): WHERE pe.project_path IN (?1)
get_activation_candidates(links, envs, path) ==
    Ordered({r \in JoinRows(links, envs) : r.project_path = path})

\* the characters of a directory name; a one-character name spells itself
Spell(c) ==
    CASE c = "proj" -> <<"p", "r", "o", "j">>
      [] c = "sub"  -> <<"s", "u", "b">>
      [] c = "home" -> <<"h", "o", "m", "e">>
      [] c = "tmp"  -> <<"t", "m", "p">>
      [] c = "root" -> <<"r", "o", "o", "t">>
      [] c = "a_b"  -> <<"a", "_", "b">>
      [] c = "axb"  -> <<"a", "x", "b">>
      [] c = "A_B"  -> <<"A", "_", "B">>
      [] OTHER      -> <<c>>

RECURSIVE PathText(_)
\* the string stored in project_path for a canonical directory
PathText(p) ==
    IF p = << >> THEN <<"/">>
    ELSE IF Len(p) = 1 THEN <<"/">> \o Spell(p[1])
    ELSE PathText(Parent(p)) \o <<"/">> \o Spell(p[Len(p)])

\* base_path.trim_end_matches('/')
trim_end_slashes(s) ==
    LET keep == {k \in 0..Len(s) : \A i \in (k + 1)..Len(s) : s[i] = "/"}
    IN SubSeq(s, 1, CHOOSE k \in keep : \A j \in keep : k <= j)

\* the case folding of SQLite's LIKE: ASCII letters only
like_fold(c) ==
    CASE c = "A" -> "a" [] c = "B" -> "b" [] c = "W" -> "w" [] OTHER -> c

RECURSIVE Like(_, _)
\* SQLite's  s LIKE pat : '%' matches any run of characters, '_' any one
\* character, every other character itself without regard to ASCII case
Like(s, pat) ==
    IF pat = << >> THEN s = << >>
    ELSE IF Head(pat) = "%"
    THEN \E k \in 0..Len(s) : Like(SubSeq(s, k + 1, Len(s)), Tail(pat))
    ELSE /\ s # << >>
         /\ (Head(pat) = "_" \/ like_fold(Head(s)) = like_fold(Head(pat)))
         /\ Like(Tail(s), Tail(pat))

\* entry.2.strip_prefix(&prefix).unwrap_or("")
strip_prefix_or_empty(s, prefix) ==
    IF starts_with(s, prefix) THEN SubSeq(s, Len(prefix) + 1, Len(s)) ELSE << >>

\* relative.split('/').filter(|s| !s.is_empty()).count()
ComponentCount(relative) ==
    Cardinality({i \in 1..Len(relative) :
        relative[i] # "/" /\ (i = 1 \/ relative[i - 1] = "/")})

\* the rows get_subfolder_candidates keeps: WHERE pe.project_path LIKE 'base/%',
\* then the depth filter on what follows the prefix
SubfolderRows(rows, base, max_depth) ==
    LET prefix       == trim_end_slashes(PathText(base)) \o <<"/">>
        like_pattern == prefix \o <<"%">>
    IN {r \in rows :
          /\ Like(PathText(r.project_path), like_pattern)
          /\ ComponentCount(strip_prefix_or_empty(PathText(r.project_path), prefix))
                <= max_depth}

\* Database::get_subfolder_candidates(base, max_depth)
get_subfolder_candidates(links, envs, base, max_depth) ==
    Ordered(SubfolderRows(JoinRows(links, envs), base, max_depth))

RECURSIVE Ancestors_no_umbrella(_, _)
\* mutant: the loop without the block on children of / and of $HOME
Ancestors_no_umbrella(current, up_depth) ==
    IF current = << >> THEN << >>
    ELSE LET parent == Parent(current)
         IN IF parent = HOME_DIR \/ parent \in stop_dirs THEN << >>
            ELSE IF up_depth + 1 > 2 THEN << >>
            ELSE <<parent>> \o Ancestors_no_umbrella(parent, up_depth + 1)

RECURSIVE Ancestors(_, _)
\* the while-let loop over current.parent(): the ancestors that are queried
Ancestors(current, up_depth) ==
    IF current = << >> THEN << >>
    ELSE LET parent == Parent(current)
         IN IF parent = HOME_DIR \/ parent \in stop_dirs THEN << >>
            ELSE IF Parent(parent) = << >> \/ Parent(parent) = HOME_DIR THEN << >>
            ELSE IF up_depth + 1 > 2 THEN << >>
            ELSE <<parent>> \o Ancestors(parent, up_depth + 1)

\* filter(|..| seen.insert(env_name.clone())): the first row of every env name
DedupByName(q) ==
    SelectSeq([i \in 1..Len(q) |-> [row |-> q[i],
                                     first |-> \A j \in 1..(i - 1) : q[j].name # q[i].name]],
              LAMBDA x : x.first)

\* mutant: stale candidates are kept
ValidOnDisk_unfiltered(q, dirs) == q

\* filter(|..| Path::new(env_path).exists())
ValidOnDisk(q, dirs) == SelectSeq(q, LAMBDA x : x.row.path \in dirs)

\* what the user types at the menu
Choices == {"", "0", "1", "2", "9", "x"}

\* choice.parse::<usize>(): the index chosen, 0 for none
ChoiceIndex(choice, n) ==
    LET idx == CASE choice = "" -> 1
                 [] choice = "1" -> 1
                 [] choice = "2" -> 2
                 [] choice = "9" -> 9
                 [] OTHER -> 0
    IN IF idx <= n THEN idx ELSE 0

\* the candidate lists the searches of Commands::Activate can produce for cwd
Resolved(cwd) ==
    LET ancs == Ancestors(cwd, 0)
        UpAt(k) == IF Len(ancs) >= k
                   THEN get_activation_candidates(project_environments, environments, ancs[k])
                   ELSE {<< >>}
    IN {ValidOnDisk(DedupByName(exact \o sub \o up1 \o up2), disk) :
           exact \in get_activation_candidates(project_environments, environments, cwd),
           sub \in get_subfolder_candidates(project_environments, environments, cwd, 2),
           up1 \in UpAt(1), up2 \in UpAt(2)}

\* the project paths of the rows the upward loop adds to all_candidates
UpwardPaths(cwd) ==
    LET ancs == Ancestors(cwd, 0)
    IN {q[i].project_path :
          <<q, i>> \in UNION {{<<c, j>> : j \in 1..Len(c)} :
              c \in UNION {get_activation_candidates(project_environments, environments,
                                                     ancs[k]) : k \in 1..Len(ancs)}}}

\* Commands::Activate without a name: search, deduplicate, validate, select, record
Activate(cwd, choice) ==
    /\ \E valid \in Resolved(cwd) :
          LET n   == Len(valid)
              idx == IF n = 1 THEN 1 ELSE ChoiceIndex(choice, n)
              lst == [i \in 1..n |-> [name |-> valid[i].row.name,
                                      project_path |-> valid[i].row.project_path]]
          IN IF n = 0 \/ idx = 0
             THEN /\ lastOp' = [op |-> "activate", ok |-> FALSE, cwd |-> cwd,
                                choice |-> choice, list |-> lst, selected |-> NULL,
                                upward |-> UpwardPaths(cwd)]
                  /\ UNCHANGED project_environments
             ELSE LET id == get_env_id(environments, valid[idx].row.name)
                  IN /\ \A r \in LinkRows(project_environments, cwd, id) :
                            r.activation_count < MaxCount
                     /\ project_environments' =
                            ActivationStatements(project_environments, cwd, id)
                     /\ lastOp' = [op |-> "activate", ok |-> TRUE, cwd |-> cwd,
                                   choice |-> choice, list |-> lst,
                                   selected |-> valid[idx].row.name,
                                   upward |-> UpwardPaths(cwd)]
    /\ UNCHANGED <<environments, envSeq, labels, comments, OtherTables>>

NextResolve ==
    \/ \E n \in Names : CliCreate(n, "3.12", FALSE, TRUE)
    \/ \E n \in Names : register_env(n, HomePath(n), "3.12")
    \/ \E n \in Names, d \in BOOLEAN : associate_project(ProjDir, n, "main", d)
    \/ \E n \in Names : record_activation(SubDir, n)
    \/ \E cwd \in {ProjDir, DeepDir}, choice \in Choices : Activate(cwd, choice)

SpecResolve == Init /\ [][NextResolve]_vars

\* a user link of e1 for ProjDir and an activated link of e2 for SubDir, no other
\* link, both environments on disk
TwoLinkScenario(e1, e2) ==
    /\ e1 # e2
    /\ \A e \in {e1, e2} : \E r \in environments : r.name = e /\ r.path \in disk
    /\ BagCardinality(project_environments) = 2
    /\ \E r \in BagToSet(project_environments) :
          /\ r.project_path = ProjDir /\ r.link_type = "user"
          /\ r.env_id = get_env_id(environments, e1)
    /\ \E r \in BagToSet(project_environments) :
          /\ r.project_path = SubDir /\ r.link_type = "activated"
          /\ r.env_id = get_env_id(environments, e2)

\* C13: with a user link for P and an activated link of another environment for
\* P/sub, the resolver returns both candidates with the P/sub link first, for the
\* working directory P as for the working directory P/sub/x.
C13_ResolverOrder ==
    [][\A cwd \in {ProjDir, DeepDir}, choice \in Choices, e1, e2 \in Names :
          (Activate(cwd, choice) /\ TwoLinkScenario(e1, e2))
          => lastOp'.list = <<[name |-> e2, project_path |-> SubDir],
                              [name |-> e1, project_path |-> ProjDir]>>]_vars

\* the half of C13 with the working directory below both links
ResolverOrderFromBelow ==
    [][\A e1, e2 \in Names :
          (lastOp'.op = "activate" /\ lastOp'.cwd = DeepDir /\ TwoLinkScenario(e1, e2))
          => lastOp'.list = <<[name |-> e2, project_path |-> SubDir],
                              [name |-> e1, project_path |-> ProjDir]>>]_vars

\* working directories and linked ancestors of the upward search
UpwardCwds == {<<"w", "p", "q", "r", "s">>, <<"w", "p", "q">>,
               HOME_DIR \o <<"p", "q", "r">>, <<"tmp", "x", "y">>}
UpwardLinks == {<<"w">>, <<"w", "p">>, <<"w", "p", "q">>, <<"w", "p", "q", "r">>,
                HOME_DIR, HOME_DIR \o <<"p">>, HOME_DIR \o <<"p", "q">>,
                <<"tmp">>, <<"tmp", "x">>}

NextUpward ==
    \/ CliCreate("a", "3.12", FALSE, TRUE)
    \/ \E p \in UpwardLinks : associate_project(p, "a", "main", FALSE)
    \/ \E cwd \in UpwardCwds : Activate(cwd, "")

SpecUpward == Init /\ [][NextUpward]_vars

\* a directory the upward search must not return, and at which it stops
Stop(p) == p = << >> \/ p = HOME_DIR \/ Len(p) = 1 \/ Parent(p) = HOME_DIR

\* p is k levels above cwd
LevelsAbove(p, cwd, k) == Len(cwd) = Len(p) + k /\ SubSeq(cwd, 1, Len(p)) = p

C21_HomeWitness ==
    /\ lastOp.op = "activate"
    /\ lastOp.cwd = HOME_DIR \o <<"p", "q", "r">>
    /\ \E r \in BagToSet(project_environments) : r.project_path = HOME_DIR \o <<"p">>
    /\ lastOp.upward = {HOME_DIR \o <<"p", "q">>}

\* directories linked and queried in the subfolder search
UnderscoreDir == <<"w", "a_b">>
LetterDir == <<"w", "axb">>
SubfolderLinks == {UnderscoreDir, UnderscoreDir \o <<"s">>, UnderscoreDir \o <<"s", "t">>,
                   UnderscoreDir \o <<"s", "t", "u">>, LetterDir \o <<"s">>,
                   <<"w", "A_B", "s">>, LetterDir \o <<"s", "t", "u">>}
SubfolderBases == {UnderscoreDir, LetterDir, << >>}
SubfolderDepths == {1, 2}

\* one call of Database::get_subfolder_candidates: the project paths of its rows
SubfolderQuery(base, max_depth) ==
    /\ \E q \in get_subfolder_candidates(project_environments, environments,
                                         base, max_depth) :
          lastOp' = [op |-> "get_subfolder_candidates", base |-> base,
                     max_depth |-> max_depth,
                     result |-> [i \in 1..Len(q) |-> q[i].project_path]]
    /\ UNCHANGED StoreVars

NextSubfolder ==
    \/ CliCreate("a", "3.12", FALSE, TRUE)
    \/ \E p \in SubfolderLinks : associate_project(p, "a", "main", FALSE)
    \/ \E base \in SubfolderBases, d \in SubfolderDepths : SubfolderQuery(base, d)

SpecSubfolder == Init /\ [][NextSubfolder]_vars

\* the directories 1 to d components below base
Below(base, d) ==
    {p \in {r.project_path : r \in BagToSet(project_environments)} :
        /\ Len(p) - Len(base) \in 1..d
        /\ SubSeq(p, 1, Len(base)) = base}

\* C22: get_subfolder_candidates(base, d) returns exactly the links whose
\* project_path is base followed by 1 to d components, compared literally.
C22_SubfolderLiteral ==
    lastOp.op = "get_subfolder_candidates" =>
        {lastOp.result[i] : i \in 1..Len(lastOp.result)}
            = Below(lastOp.base, lastOp.max_depth)

\* activation_count of the (p, id) link, 0 when there is none
CountAt(links, p, id) ==
    IF LinkRows(links, p, id) = {} THEN 0
    ELSE (CHOOSE r \in LinkRows(links, p, id) : TRUE).activation_count

\* the listed environment the menu input stands for, if any
Chosen(list, choice) ==
    IF Len(list) = 1 THEN list[1].name
    ELSE IF choice \in {"", "1"} THEN list[1].name
    ELSE IF choice = "2" /\ Len(list) >= 2 THEN list[2].name
    ELSE NULL

\* C20: the resolver lists no environment whose directory is missing; with no
\* candidate, and on cancel or invalid input, it records nothing; with one
\* candidate, or on a choice among several, it records one activation, for that
\* environment and for the working directory, leaving every other link as it was.
C20_ActivationCredit ==
    [][lastOp'.op = "activate" =>
        LET list == lastOp'.list
            env  == Chosen(list, lastOp'.choice)
            id   == get_env_id(environments, env)
        IN /\ \A i \in 1..Len(list) :
                 \E e \in environments : e.name = list[i].name /\ e.path \in disk
           /\ \A i, j \in 1..Len(list) : i # j => list[i].name # list[j].name
           /\ (Len(list) = 0 \/ env = NULL) =>
                 /\ ~lastOp'.ok
                 /\ project_environments' = project_environments
           /\ (Len(list) > 0 /\ env # NULL) =>
                 /\ lastOp'.ok /\ lastOp'.selected = env
                 /\ CountAt(project_environments', lastOp'.cwd, id) =
                        CountAt(project_environments, lastOp'.cwd, id) + 1
                 /\ BagCardinality(project_environments') <=
                        BagCardinality(project_environments) + 1
                 /\ \A r \in BagToSet(project_environments) :
                        ~(r.project_path = lastOp'.cwd /\ r.env_id = id)
                        => /\ r \in BagToSet(project_environments')
                           /\ project_environments'[r] = project_environments[r]]_vars

\* from P/sub/x, with two candidates listed and a stale one dropped or not, the
\* user picked the second: the link matched is the one of P, the credit goes to
\* the working directory
C20_Witness ==
    /\ lastOp.op = "activate" /\ lastOp.ok
    /\ lastOp.cwd = DeepDir /\ lastOp.choice = "2"
    /\ Len(lastOp.list) = 2
    /\ lastOp.selected = lastOp.list[2].name
    /\ lastOp.list[2].project_path = ProjDir
    /\ \E r \in BagToSet(project_environments) :
          r.project_path = DeepDir /\ r.link_type = "activated"
             /\ r.env_id = get_env_id(environments, lastOp.selected)

\* one candidate was left after a stale one was dropped, and it was selected
C20_StaleDropped ==
    /\ lastOp.op = "activate" /\ lastOp.ok /\ Len(lastOp.list) = 1
    /\ \E e \in environments : e.path \notin disk
          /\ \E r \in BagToSet(project_environments) :
                r.env_id = e.id /\ r.project_path = SubDir
    /\ lastOp.cwd = DeepDir

----------------------------------------------------------------------------
(* Version comparison *)

MaxSegs == 2

\* the text between two dots of a version string
Segments == {<< >>, <<"0">>, <<"9">>, <<"1", "0">>, <<"9", "a">>}

RECURSIVE JoinDots(_)
\* the version string whose segments are segs
JoinDots(segs) ==
    IF Len(segs) = 1 THEN segs[1]
    ELSE segs[1] \o <<".">> \o JoinDots(Tail(segs))

VersionStrings ==
    {JoinDots(segs) : segs \in SeqsUpTo(Segments, MaxSegs) \ {<< >>}}

RECURSIVE split(_, _)
\* str::split(sep): the pieces between the separators, at least one
split(s, sep) ==
    IF \E i \in 1..Len(s) : s[i] = sep
    THEN LET i == CHOOSE i \in 1..Len(s) : s[i] = sep /\ \A j \in 1..(i - 1) : s[j] # sep
         IN <<SubSeq(s, 1, i - 1)>> \o split(SubSeq(s, i + 1, Len(s)), sep)
    ELSE <<s>>

\* char::is_ascii_digit and the digit's value
Digits == <<"0", "1", "2", "3", "4", "5", "6", "7", "8", "9">>

DigitValue ==
    [c \in {Digits[i] : i \in 1..Len(Digits)} |->
        (CHOOSE i \in 1..Len(Digits) : Digits[i] = c) - 1]

RECURSIVE take_while_digits(_)
take_while_digits(s) ==
    IF s # << >> /\ Head(s) \in DOMAIN DigitValue
    THEN <<Head(s)>> \o take_while_digits(Tail(s))
    ELSE << >>

RECURSIVE DecimalValue(_)
DecimalValue(ds) ==
    IF ds = << >> THEN 0
    ELSE 10 * DecimalValue(SubSeq(ds, 1, Len(ds) - 1)) + DigitValue[ds[Len(ds)]]

\* mutant: only the first digit of a segment counts
parse_num_first_digit(s) ==
    IF take_while_digits(s) = << >> THEN 0 ELSE DigitValue[Head(s)]

\* parse_num: the leading digits as a number, 0 when there are none
parse_num(s) == DecimalValue(take_while_digits(s))

RECURSIVE CompareFrom(_, _, _, _)
\* the for loop of compare_versions from index i
CompareFrom(parts_a, parts_b, i, max_len) ==
    IF i > max_len THEN 0
    ELSE LET va == IF i <= Len(parts_a) THEN parse_num(parts_a[i]) ELSE 0
             vb == IF i <= Len(parts_b) THEN parse_num(parts_b[i]) ELSE 0
         IN IF va < vb THEN -1
            ELSE IF va > vb THEN 1
            ELSE CompareFrom(parts_a, parts_b, i + 1, max_len)

\* utils::compare_versions
compare_versions(a, b) ==
    LET parts_a == split(a, ".")
        parts_b == split(b, ".")
        max_len == IF Len(parts_a) > Len(parts_b) THEN Len(parts_a) ELSE Len(parts_b)
    IN CompareFrom(parts_a, parts_b, 1, max_len)

\* a pair of version strings about to be compared
InitVersion ==
    /\ FreshStore
    /\ \E a, b \in VersionStrings : lastOp = [op |-> "args", a |-> a, b |-> b]

CompareVersions ==
    /\ lastOp.op = "args"
    /\ lastOp' = [op |-> "compare_versions", a |-> lastOp.a, b |-> lastOp.b,
                  out |-> compare_versions(lastOp.a, lastOp.b),
                  rev |-> compare_versions(lastOp.b, lastOp.a),
                  self |-> compare_versions(lastOp.a, lastOp.a)]
    /\ UNCHANGED StoreVars

NextVersion == CompareVersions

SpecVersion == InitVersion /\ [][NextVersion]_vars

----------------------------------------------------------------------------
(* Environment markers of a Requires-Dist line *)

MaxClauses == 2

\* the Python version of an environment, from the directory name pythonX.Y
PyEnvVersions == {<<"3", ".", "8">>, <<"3", ".", "1", "2">>}

\* quoted version literals of a marker, without the quotes
MarkerLiterals == {"3.8", "3.11"}

PyVars == {"python_version", "python_full_version"}

\* the operators eval_single_python_marker looks for, in the order it looks
SixOps == <<">=", "<=", "!=", "==", ">", "<">>

\* a clause is a sequence of tokens: a variable name, an operator, a literal
MarkerClauses ==
    {<<"python_version", op, lit>> :
        op \in {">=", "<=", "!=", "==", ">", "<", "~=", "in", "not in"},
        lit \in MarkerLiterals}
    \cup {<<"python_full_version", "<", "3.11">>}
    \cup {<<lit, op, "python_version">> : op \in {"<=", ">="}, lit \in MarkerLiterals}
    \cup {<<"platform_release", ">=", "3.8">>}

\* a marker: clauses joined by " and " or by " or ", or one clause alone
Markers ==
    {[conn |-> "none", clauses |-> <<c>>] : c \in MarkerClauses}
    \cup {[conn |-> k, clauses |-> q] :
            k \in {"and", "or"},
            q \in SeqsUpTo(MarkerClauses, MaxClauses) \ SeqsUpTo(MarkerClauses, 1)}

\* the characters of a token after trim_matches('"'): the digits and dots of a
\* literal, letters for a name
TokenText(tok) ==
    CASE tok = "3.8" -> <<"3", ".", "8">>
      [] tok = "3.11" -> <<"3", ".", "1", "1">>
      [] OTHER -> <<"p", "v">>

\* clause.contains("python_version") || clause.contains("python_full_version")
MentionsPython(c) == \E i \in 1..Len(c) : c[i] \in PyVars

\* utils::eval_single_python_marker: the first operator of SixOps that occurs,
\* the text after it as the version, compare_versions(env, version)
eval_single_python_marker(c, env) ==
    IF \E k \in 1..Len(SixOps), i \in 1..Len(c) : c[i] = SixOps[k]
    THEN LET k   == CHOOSE k \in 1..Len(SixOps) :
                        /\ \E i \in 1..Len(c) : c[i] = SixOps[k]
                        /\ \A j \in 1..(k - 1) : \A i \in 1..Len(c) : c[i] # SixOps[j]
             pos == CHOOSE i \in 1..Len(c) :
                        c[i] = SixOps[k] /\ \A j \in 1..(i - 1) : c[j] # SixOps[k]
             ver == IF pos < Len(c) THEN TokenText(c[pos + 1]) ELSE << >>
             cmp == compare_versions(env, ver)
         IN IF ver = << >> THEN TRUE
            ELSE CASE SixOps[k] = ">=" -> cmp >= 0
                   [] SixOps[k] = "<=" -> cmp <= 0
                   [] SixOps[k] = ">"  -> cmp > 0
                   [] SixOps[k] = "<"  -> cmp < 0
                   [] SixOps[k] = "==" -> cmp = 0
                   [] SixOps[k] = "!=" -> cmp # 0
    ELSE TRUE

\* utils::marker_excludes_python
marker_excludes_python(m, env) ==
    LET py == {i \in 1..Len(m.clauses) : MentionsPython(m.clauses[i])}
    IN IF m.conn = "and" /\ py # {}
       THEN \E i \in py : ~eval_single_python_marker(m.clauses[i], env)
       ELSE IF m.conn = "or" /\ py # {}
       THEN \A i \in py : ~eval_single_python_marker(m.clauses[i], env)
       ELSE IF m.conn = "none" /\ py # {}
       THEN ~eval_single_python_marker(m.clauses[1], env)
       ELSE FALSE

InitMarker ==
    /\ FreshStore
    /\ \E m \in Markers, env \in PyEnvVersions :
          lastOp = [op |-> "args", marker |-> m, env |-> env]

EvalMarker ==
    /\ lastOp.op = "args"
    /\ lastOp' = [op |-> "marker_excludes_python", marker |-> lastOp.marker,
                  env |-> lastOp.env,
                  out |-> marker_excludes_python(lastOp.marker, lastOp.env)]
    /\ UNCHANGED StoreVars

NextMarker == EvalMarker

SpecMarker == InitMarker /\ [][NextMarker]_vars

\* a clause the evaluator can evaluate: a python variable, one of the six
\* comparisons, a version literal, in this order
Recognised(c) ==
    /\ c[1] \in PyVars
    /\ \E k \in 1..Len(SixOps) : c[2] = SixOps[k]
    /\ c[3] \in MarkerLiterals

\* C15: a marker none of whose clauses can be evaluated is not excluded.
C15_MarkerUnknown ==
    lastOp.op = "marker_excludes_python" =>
        ((\A i \in 1..Len(lastOp.marker.clauses) : ~Recognised(lastOp.marker.clauses[i]))
            => ~lastOp.out)

----------------------------------------------------------------------------
(* Dependency checker *)

MaxLines == 1

\* m.contains("sys_platform") || ... || m.contains("platform_machine")
PlatformVars == {"sys_platform", "platform_system", "os_name", "implementation_name",
                 "platform_machine"}

NoMarker == [conn |-> "absent", clauses |-> << >>]

OldPythonOnly == [conn |-> "none", clauses |-> << <<"python_version", "<", "3.11">> >>]

LinuxOnly == [conn |-> "none", clauses |-> << <<"sys_platform", "==", "linux">> >>]

\* "name", "name>=2": parse_requirement_name_and_spec hands back the name and the
\* specifier, here a sequence of constraints
AtLeastTwo == << [op |-> ">=", ver |-> <<"2">>] >>

\* Requires-Dist lines: name, specifier, marker after ';', "extra ==" in the line,
\* " @ " in the requirement
RequiresDist ==
    {[dep |-> "bar", spec |-> << >>, marker |-> NoMarker, extra |-> FALSE, url |-> FALSE],
     [dep |-> "Bar", spec |-> AtLeastTwo, marker |-> NoMarker, extra |-> FALSE, url |-> FALSE],
     [dep |-> "bar", spec |-> AtLeastTwo, marker |-> NoMarker, extra |-> TRUE, url |-> FALSE],
     [dep |-> "bar", spec |-> AtLeastTwo, marker |-> OldPythonOnly, extra |-> FALSE,
      url |-> FALSE],
     [dep |-> "bar", spec |-> << >>, marker |-> LinuxOnly, extra |-> FALSE, url |-> FALSE],
     [dep |-> "bar", spec |-> AtLeastTwo, marker |-> LinuxOnly, extra |-> FALSE,
      url |-> FALSE],
     [dep |-> "bar", spec |-> << >>, marker |-> NoMarker, extra |-> FALSE, url |-> TRUE]}

\* versions of bar that have a .dist-info directory in site-packages
BarVersions == {<<"1", ".", "2", "6">>, <<"2", ".", "0", "+", "c", "u">>}

\* the directory lib/pythonX.Y and the version strip_prefix("python") leaves
PythonDirs == {"python3.8", "python3.12"}

env_python_version(dir) ==
    IF dir = "python3.8" THEN <<"3", ".", "8">> ELSE <<"3", ".", "1", "2">>

\* utils::normalize_package_name: to_lowercase, '-' to '_'
normalize_package_name(n) == IF n = "Bar" THEN "bar" ELSE n

\* utils::strip_local_version
strip_local_version(v) == split(v, "+")[1]

\* str::ends_with(".*")
ends_with_dot_star(v) == Len(v) >= 2 /\ v[Len(v) - 1] = "." /\ v[Len(v)] = "*"

\* the "~=" arm of version_satisfies_specifier
compatible_release(installed_clean, req_clean) ==
    /\ compare_versions(installed_clean, req_clean) >= 0
    /\ LET parts == split(req_clean, ".")
       IN IF Len(parts) >= 2
          THEN LET major == JoinDots(SubSeq(parts, 1, Len(parts) - 1))
               IN \/ starts_with(installed_clean, major)
                  \/ starts_with(installed_clean, major \o <<".">>)
          ELSE TRUE

\* one constraint of the specifier, after the operator has been split off
ConstraintSatisfied(installed_clean, op, req_clean) ==
    IF op = "==" /\ ends_with_dot_star(req_clean)
    THEN LET prefix == SubSeq(req_clean, 1, Len(req_clean) - 2)
         IN ~(/\ ~starts_with(installed_clean, prefix)
              /\ ~starts_with(installed_clean, prefix \o <<".">>)
              /\ installed_clean # prefix)
    ELSE LET cmp == compare_versions(installed_clean, req_clean)
         IN CASE op = ">=" -> cmp >= 0
              [] op = "<=" -> cmp <= 0
              [] op = ">"  -> cmp > 0
              [] op = "<"  -> cmp < 0
              [] op = "==" -> cmp = 0
              [] op = "!=" -> cmp # 0
              [] op = "~=" -> compatible_release(installed_clean, req_clean)

\* utils::version_satisfies_specifier: every constraint of the specifier holds
version_satisfies_specifier(installed, spec) ==
    \A i \in 1..Len(spec) :
        ConstraintSatisfied(strip_local_version(installed), spec[i].op,
                            strip_local_version(spec[i].ver))

\* installed versions and required versions of the specifier check
InstalledVersions ==
    {<<"1", ".", "4">>, <<"1", ".", "9">>, <<"1", ".", "3">>, <<"2", ".", "0">>,
     <<"1", "0", ".", "0">>, <<"1">>, <<"1", ".", "4", ".", "5">>, <<"0", ".", "9">>,
     <<"1", ".", "9", "+", "c", "u">>}
RequiredVersions ==
    {<<"1", ".", "4">>, <<"2", ".", "0">>, <<"1">>, <<"1", ".", "4", ".", "2">>,
     <<"1", ".", "*">>}
SpecifierOps == {">=", "<=", ">", "<", "==", "!=", "~="}

InitSatisfies ==
    /\ FreshStore
    /\ \E installed \in InstalledVersions, op \in SpecifierOps, ver \in RequiredVersions :
          lastOp = [op |-> "args", installed |-> installed,
                    spec |-> << [op |-> op, ver |-> ver] >>]

\* one call of version_satisfies_specifier
Satisfies ==
    /\ lastOp.op = "args"
    /\ lastOp' = [op |-> "version_satisfies_specifier", installed |-> lastOp.installed,
                  spec |-> lastOp.spec,
                  out |-> version_satisfies_specifier(lastOp.installed, lastOp.spec)]
    /\ UNCHANGED StoreVars

NextSatisfies == Satisfies

SpecSatisfies == InitSatisfies /\ [][NextSatisfies]_vars

\* the value of a run of digits
ReleaseNumber(seg) == DecimalValue(take_while_digits(seg))

\* C24: installed satisfies '~=X.Y' iff installed >= X.Y and the leading release
\* segment of installed equals X.
C24_CompatibleRelease ==
    (/\ lastOp.op = "version_satisfies_specifier"
     /\ lastOp.spec[1].op = "~="
     /\ Len(split(lastOp.spec[1].ver, ".")) = 2
     /\ ~ends_with_dot_star(lastOp.spec[1].ver))
    => LET inst == split(lastOp.installed, "+")[1]
           req  == lastOp.spec[1].ver
       IN lastOp.out <=>
             /\ compare_versions(inst, req) >= 0
             /\ ReleaseNumber(split(inst, ".")[1]) = ReleaseNumber(split(req, ".")[1])

\* the body of the loop over Requires-Dist lines: the issues one line adds
LineIssues(pkg, line, bar, env) ==
    IF line.extra THEN EmptyBag
    ELSE IF line.marker # NoMarker
            /\ \/ \E i \in 1..Len(line.marker.clauses), j \in 1..3 :
                     line.marker.clauses[i][j] \in PlatformVars
               \/ marker_excludes_python(line.marker, env)
    THEN EmptyBag
    ELSE IF line.url THEN EmptyBag
    ELSE IF normalize_package_name(line.dep) # "bar" \/ bar = NULL
    THEN SetToBag({[kind |-> "Missing", package |-> pkg, requires |-> line.dep,
                    installed_version |-> NULL]})
    ELSE IF line.spec # << >> /\ ~version_satisfies_specifier(bar, line.spec)
    THEN SetToBag({[kind |-> "Incompatible", package |-> pkg, requires |-> line.dep,
                    installed_version |-> bar]})
    ELSE EmptyBag

RECURSIVE PackageIssues(_, _, _, _)
PackageIssues(pkg, lines, bar, env) ==
    IF lines = << >> THEN EmptyBag
    ELSE LineIssues(pkg, Head(lines), bar, env) (+) PackageIssues(pkg, Tail(lines), bar, env)

InitDeps ==
    /\ FreshStore
    /\ \E dir \in PythonDirs, bar \in SUBSET BarVersions,
          foo, baz \in SeqsUpTo(RequiresDist, MaxLines) :
          lastOp = [op |-> "args", dir |-> dir, bar |-> bar, foo |-> foo, baz |-> baz]

\* utils::check_dependencies on a site-packages with foo, baz and the dist-info
\* directories of bar: index (the last bar scanned wins), Duplicate issues, then
\* the Requires-Dist lines of every package
check_dependencies ==
    /\ lastOp.op = "args"
    /\ \E v \in IF lastOp.bar = {} THEN {NULL} ELSE lastOp.bar :
          LET env == env_python_version(lastOp.dir)
              dup == IF Cardinality(lastOp.bar) > 1
                     THEN SetToBag({[kind |-> "Duplicate", package |-> "bar",
                                     requires |-> NULL, installed_version |-> NULL]})
                     ELSE EmptyBag
          IN lastOp' = [op |-> "check_dependencies", dir |-> lastOp.dir,
                        foo |-> lastOp.foo, baz |-> lastOp.baz, index |-> v,
                        issues |-> dup (+) PackageIssues("foo", lastOp.foo, v, env)
                                       (+) PackageIssues("baz", lastOp.baz, v, env)]
    /\ UNCHANGED StoreVars

NextDeps == check_dependencies

SpecDeps == InitDeps /\ [][NextDeps]_vars

\* the issue the line calls for, read off the line
CalledFor(pkg, line, bar, dir) ==
    IF \/ line.extra
       \/ line.url
       \/ line.marker = OldPythonOnly /\ dir = "python3.12"
    THEN EmptyBag
    ELSE IF bar = NULL
    THEN SetToBag({[kind |-> "Missing", package |-> pkg, requires |-> line.dep,
                    installed_version |-> NULL]})
    ELSE IF line.spec = AtLeastTwo /\ bar = <<"1", ".", "2", "6">>
    THEN SetToBag({[kind |-> "Incompatible", package |-> pkg, requires |-> line.dep,
                    installed_version |-> bar]})
    ELSE EmptyBag

RECURSIVE AllCalledFor(_, _, _, _)
AllCalledFor(pkg, lines, bar, dir) ==
    IF lines = << >> THEN EmptyBag
    ELSE CalledFor(pkg, Head(lines), bar, dir) (+) AllCalledFor(pkg, Tail(lines), bar, dir)

\* C14: every Requires-Dist line yields no issue when it has "extra ==", a false
\* python_version marker or the URL form, and otherwise Missing when the name is
\* not installed, Incompatible when the installed version fails the specifier,
\* nothing when it satisfies it; each requirer is reported on its own.
C14_DependencyIssues ==
    lastOp.op = "check_dependencies" =>
        BagFilter(lastOp.issues, LAMBDA x : x.kind # "Duplicate") =
            AllCalledFor("foo", lastOp.foo, lastOp.index, lastOp.dir)
            (+) AllCalledFor("baz", lastOp.baz, lastOp.index, lastOp.dir)

\* C23: a Requires-Dist line whose marker is an OS/platform clause is checked
\* like an unmarked one: Missing when the package is absent, Incompatible when
\* the installed version fails the specifier.
C23_PlatformChecked ==
    (/\ lastOp.op = "check_dependencies"
     /\ Len(lastOp.foo) = 1 /\ lastOp.baz = << >>
     /\ lastOp.foo[1].marker = LinuxOnly)
    => /\ lastOp.index = NULL =>
             \E x \in BagToSet(lastOp.issues) :
                 x.kind = "Missing" /\ x.package = "foo" /\ x.requires = "bar"
       /\ (lastOp.index = <<"1", ".", "2", "6">> /\ lastOp.foo[1].spec = AtLeastTwo) =>
             \E x \in BagToSet(lastOp.issues) :
                 x.kind = "Incompatible" /\ x.package = "foo"

----------------------------------------------------------------------------
(* Health levels and reports *)

MaxItems == 3

\* enum HealthLevel, in declaration order: derive(Ord) compares by position
HealthLevels == <<"Pass", "Info", "Warn", "Fail">>

LevelRank(l) == CHOOSE i \in 1..Len(HealthLevels) : HealthLevels[i] = l

\* enum HealthDiagnostic, by variant
Diagnostics == {"PythonOk", "PythonMissing", "BrokenSymlink", "SitePackagesOk",
                "SitePackagesMissing", "CudaConsistent", "CudaMismatch",
                "CpuCudaConflict", "DependenciesOk", "MissingDependencies",
                "VersionConflicts"}

\* HealthDiagnostic::level
level(d) ==
    CASE d \in {"PythonOk", "SitePackagesOk", "CudaConsistent", "DependenciesOk"} -> "Pass"
      [] d = "MissingDependencies" -> "Info"
      [] d \in {"CudaMismatch", "CpuCudaConflict", "VersionConflicts"} -> "Warn"
      [] d \in {"PythonMissing", "BrokenSymlink", "SitePackagesMissing"} -> "Fail"

\* mutant: the level of the diagnostic pushed last
overall_of_last(items) ==
    IF items = << >> THEN "Pass" ELSE level(items[Len(items)])

RECURSIVE overall(_)
\* HealthReport::overall: items.iter().map(level).max().unwrap_or(Pass)
overall(items) ==
    IF items = << >> THEN "Pass"
    ELSE LET rest == overall(Tail(items))
         IN IF LevelRank(level(Head(items))) > LevelRank(rest)
            THEN level(Head(items)) ELSE rest

InitReport ==
    /\ FreshStore
    /\ lastOp = [op |-> "report", items |-> << >>, overall |-> overall(<< >>)]

\* HealthReport::push, followed by overall()
push(d) ==
    /\ lastOp.op = "report"
    /\ Len(lastOp.items) < MaxItems
    /\ lastOp' = [op |-> "report", items |-> Append(lastOp.items, d),
                  overall |-> overall(Append(lastOp.items, d))]
    /\ UNCHANGED StoreVars

NextReport == \E d \in Diagnostics : push(d)

SpecReport == InitReport /\ [][NextReport]_vars

\* the severities in the order Pass < Info < Warn < Fail, as numbers
Severity(l) ==
    CASE l = "Pass" -> 0 [] l = "Info" -> 1 [] l = "Warn" -> 2 [] l = "Fail" -> 3

\* C17: overall() is the highest level among the items, Pass for an empty report,
\* never below the level of an item, and a push never lowers it.
C17_OverallIsMax ==
    /\ [](lastOp.op = "report" =>
            /\ \A i \in 1..Len(lastOp.items) :
                  Severity(lastOp.overall) >= Severity(level(lastOp.items[i]))
            /\ lastOp.items = << >> => lastOp.overall = "Pass"
            /\ lastOp.items # << >> =>
                  \E i \in 1..Len(lastOp.items) : lastOp.overall = level(lastOp.items[i]))
    /\ [][(lastOp.op = "report" /\ lastOp'.op = "report")
            => Severity(lastOp'.overall) >= Severity(lastOp.overall)]_vars

\* a Fail item was followed by a Pass item and the report is still Fail
C17_Witness ==
    /\ lastOp.op = "report"
    /\ lastOp.items = <<"MissingDependencies", "PythonMissing", "DependenciesOk">>
    /\ lastOp.overall = "Fail"

----------------------------------------------------------------------------
(* Full and quick health checks of one environment directory *)

\* what bin/python is: nothing, a regular file, a symlink whose absolute target
\* exists, a symlink whose target exists relative to bin/, a dangling symlink
PythonStates == {"absent", "file", "symlink_abs", "symlink_rel", "symlink_broken"}

\* Path::exists follows symlinks
exists(py) == py \in {"file", "symlink_abs", "symlink_rel"}

\* Path::is_symlink
is_symlink(py) == py \in {"symlink_abs", "symlink_rel", "symlink_broken"}

\* target.exists(), the link text taken as it stands
target_exists(py) == py = "symlink_abs"

\* env_path.join("bin").join(&target).exists()
joined_exists(py) == py \in {"symlink_abs", "symlink_rel"}

\* versions of the scanned packages, one package per version
ScannedVersions == {<<"2">>, <<"2", "+", "c", "u", "1">>, <<"2", "+", "c", "u", "2">>,
                    <<"2", "+", "c", "p", "u">>, <<"2", "+", "r", "c">>}

\* the variants of DepIssue present in the result of check_dependencies
IssueKinds == {"Missing", "Incompatible", "Duplicate"}

\* str::find(c): the first position of c, 0 for None
find(s, c) ==
    IF contains(s, c) THEN CHOOSE i \in 1..Len(s) : s[i] = c /\ \A j \in 1..(i - 1) : s[j] # c
    ELSE 0

CU == <<"c", "u">>
CPU == <<"c", "p", "u">>

\* the keys of cuda_versions / the members of cuda_suffixes
cuda_suffixes(versions) ==
    {SubSeq(v, find(v, "+") + 1, Len(v)) :
        v \in {w \in versions : /\ find(w, "+") # 0
                                /\ LET suffix == SubSeq(w, find(w, "+") + 1, Len(w))
                                   IN starts_with(suffix, CU) \/ suffix = CPU}}

\* the environment directories drawn: without site-packages the scan and the
\* dependency check return nothing
HealthEnvs ==
    {e \in [python : PythonStates, site_packages : BOOLEAN,
            versions : SUBSET ScannedVersions, issues : SUBSET IssueKinds] :
        ~e.site_packages => (e.versions = {} /\ e.issues = {})}

\* step 1 of check_health
PythonDiagnostic(py) ==
    IF exists(py)
    THEN IF is_symlink(py)
         THEN IF target_exists(py) \/ joined_exists(py) THEN "PythonOk" ELSE "BrokenSymlink"
         ELSE "PythonOk"
    ELSE "PythonMissing"

\* step 3 of check_health
CudaDiagnostics(versions) ==
    LET keys == cuda_suffixes(versions)
        has_cpu_and_cuda == CPU \in keys /\ \E k \in keys : starts_with(k, CU)
        has_mixed_cuda == Cardinality({k \in keys : starts_with(k, CU)}) > 1
    IN IF Cardinality(keys) > 1
       THEN IF has_cpu_and_cuda \/ has_mixed_cuda
            THEN IF has_mixed_cuda THEN <<"CudaMismatch">> ELSE <<"CpuCudaConflict">>
            ELSE << >>
       ELSE IF Cardinality(keys) = 1 THEN <<"CudaConsistent">> ELSE << >>

\* step 4 of check_health
DependencyDiagnostics(issues) ==
    IF issues = {} THEN <<"DependenciesOk">>
    ELSE (IF issues \ {"Missing"} # {} THEN <<"VersionConflicts">> ELSE << >>)
         \o (IF "Missing" \in issues THEN <<"MissingDependencies">> ELSE << >>)

\* ZenOps::check_health, for the directory the name resolves to
check_health(e) ==
    <<PythonDiagnostic(e.python)>>
    \o <<IF e.site_packages THEN "SitePackagesOk" ELSE "SitePackagesMissing">>
    \o CudaDiagnostics(e.versions)
    \o DependencyDiagnostics(e.issues)

\* mutant: the quick check without its site-packages step
check_health_quick_no_site(e) ==
    IF ~exists(e.python) THEN "Fail"
    ELSE IF is_symlink(e.python) /\ ~target_exists(e.python) /\ ~joined_exists(e.python)
    THEN "Fail"
    ELSE LET suffixes == cuda_suffixes(e.versions)
             has_mixed_cuda == Cardinality({x \in suffixes : starts_with(x, CU)}) > 1
             has_cpu_and_cuda == CPU \in suffixes /\ \E x \in suffixes : starts_with(x, CU)
             has_conflicts == \E i \in e.issues : i # "Missing"
             has_missing == \E i \in e.issues : i = "Missing"
         IN IF has_mixed_cuda \/ has_cpu_and_cuda \/ has_conflicts THEN "Warn"
            ELSE IF has_missing THEN "Info"
            ELSE "Pass"

\* ops::check_health_quick
check_health_quick(e) ==
    IF ~exists(e.python) THEN "Fail"
    ELSE IF is_symlink(e.python) /\ ~target_exists(e.python) /\ ~joined_exists(e.python)
    THEN "Fail"
    ELSE IF ~e.site_packages THEN "Fail"
    ELSE LET suffixes == cuda_suffixes(e.versions)
             has_mixed_cuda == Cardinality({x \in suffixes : starts_with(x, CU)}) > 1
             has_cpu_and_cuda == CPU \in suffixes /\ \E x \in suffixes : starts_with(x, CU)
             has_conflicts == \E i \in e.issues : i # "Missing"
             has_missing == \E i \in e.issues : i = "Missing"
         IN IF has_mixed_cuda \/ has_cpu_and_cuda \/ has_conflicts THEN "Warn"
            ELSE IF has_missing THEN "Info"
            ELSE "Pass"

InitHealth ==
    /\ FreshStore
    /\ \E e \in HealthEnvs : lastOp = [op |-> "args", env |-> e]

\* both checks run on the directory drawn
CheckHealth ==
    /\ lastOp.op = "args"
    /\ lastOp' = [op |-> "check_health", env |-> lastOp.env,
                  report |-> check_health(lastOp.env),
                  quick |-> check_health_quick(lastOp.env)]
    /\ UNCHANGED StoreVars

NextHealth == CheckHealth

SpecHealth == InitHealth /\ [][NextHealth]_vars

\* C16: for every environment directory the quick check returns the overall level
\* of the report the full check builds for the same directory.
C16_QuickIsOverall ==
    lastOp.op = "check_health" => lastOp.quick = overall(lastOp.report)

\* a sound interpreter with two CUDA builds and only missing dependencies: Warn
C16_Witness ==
    /\ lastOp.op = "check_health"
    /\ lastOp.env.python = "symlink_rel"
    /\ lastOp.env.issues = {"Missing"}
    /\ lastOp.report = <<"PythonOk", "SitePackagesOk", "CudaMismatch", "MissingDependencies">>
    /\ lastOp.quick = "Warn"

\* a regular interpreter file in a directory without site-packages: Fail
C16_FailWitness ==
    /\ lastOp.op = "check_health"
    /\ lastOp.env.python = "file"
    /\ ~lastOp.env.site_packages
    /\ lastOp.quick = "Fail"

\* C25: the first diagnostic is PythonMissing iff bin/python is no directory
\* entry, BrokenSymlink iff it is a symlink whose target resolves neither as given
\* nor relative to bin/, PythonOk otherwise; the first two have level Fail.
C25_PythonProbe ==
    lastOp.op = "check_health" =>
        LET first == lastOp.report[1]
            py    == lastOp.env.python
        IN /\ first \in {"PythonMissing", "BrokenSymlink", "PythonOk"}
           /\ first = "PythonMissing" <=> py = "absent"
           /\ first = "BrokenSymlink" <=> py = "symlink_broken"
           /\ first # "PythonOk" => level(first) = "Fail"
           /\ \A i \in 2..Len(lastOp.report) :
                 lastOp.report[i] \notin {"PythonMissing", "BrokenSymlink", "PythonOk"}

\* the +suffix of every scanned version that has one
LocalSuffixes(versions) ==
    {SubSeq(v, find(v, "+") + 1, Len(v)) : v \in {w \in versions : contains(w, "+")}}

\* a suffix of the form cuNNN
IsCuNumber(x) ==
    /\ Len(x) > 2 /\ x[1] = "c" /\ x[2] = "u"
    /\ \A i \in 3..Len(x) : x[i] \in DOMAIN DigitValue

CudaKinds == {"CudaConsistent", "CudaMismatch", "CpuCudaConflict"}

\* C26: no CUDA diagnostic without a +suffix, CudaConsistent when all suffixed
\* versions share one suffix, CpuCudaConflict whenever +cpu coexists with a
\* +cuNNN, CudaMismatch whenever two distinct +cuNNN suffixes are present.
C26_CudaDiagnostics ==
    lastOp.op = "check_health" =>
        LET suffixes == LocalSuffixes(lastOp.env.versions)
            emitted  == {lastOp.report[i] : i \in 1..Len(lastOp.report)} \cap CudaKinds
        IN /\ suffixes = {} => emitted = {}
           /\ Cardinality(suffixes) = 1 => emitted = {"CudaConsistent"}
           /\ (CPU \in suffixes /\ \E x \in suffixes : IsCuNumber(x))
                 => "CpuCudaConflict" \in emitted
           /\ Cardinality({x \in suffixes : IsCuNumber(x)}) >= 2
                 => "CudaMismatch" \in emitted

----------------------------------------------------------------------------
(* Package scanner: the .dist-info directories of one site-packages *)

MaxEntries == 2

\* lines of a METADATA file: the text before the value, and the value
NameLine(v) == [prefix |-> "Name: ", val |-> v]
VersionLine(v) == [prefix |-> "Version: ", val |-> v]
BlankLine == [prefix |-> "", val |-> << >>]
ClassifierLine == [prefix |-> "Classifier: ", val |-> <<"x">>]

\* an unreadable METADATA: read_to_string returns Err
Unreadable == <<[prefix |-> "Err", val |-> << >>]>>

\* what read_to_string(dist_info.join("METADATA")) gives: Err, or the lines
MetadataFiles ==
    {Unreadable,
     <<NameLine(<<"f", "o">>), VersionLine(<<"1">>)>>,
     <<NameLine(<<"F", "-", "b">>), VersionLine(<<"1">>)>>,
     <<NameLine(<<"f", "o">>)>>,
     <<VersionLine(<<"1">>)>>,
     <<NameLine(<<"f", "o">>), BlankLine, VersionLine(<<"1">>)>>,
     <<ClassifierLine, NameLine(<<"f", "o">>), VersionLine(<<"2">>)>>,
     <<NameLine(<< >>), VersionLine(<<"1">>)>>}

\* Option<String>
None == [some |-> FALSE, val |-> << >>]
Some(v) == [some |-> TRUE, val |-> v]

\* char::to_lowercase on the letters that occur
lower(c) == CASE c = "F" -> "f" [] OTHER -> c

\* String::to_lowercase
lowercase(str) == [i \in 1..Len(str) |-> lower(str[i])]

RECURSIVE ParseLines(_, _, _)
\* the loop of parse_metadata over content.lines(), from the pair found so far
ParseLines(lines, name, version) ==
    IF lines = << >> THEN <<name, version>>
    ELSE LET line == Head(lines)
         IN IF line = BlankLine /\ name.some THEN <<name, version>>
            ELSE LET n == IF line.prefix = "Name: " THEN Some(line.val) ELSE name
                     v == IF line.prefix = "Name: " THEN version
                          ELSE IF line.prefix = "Version: " THEN Some(line.val)
                          ELSE version
                 IN IF n.some /\ v.some THEN <<n, v>>
                    ELSE ParseLines(Tail(lines), n, v)

\* utils::parse_metadata
parse_metadata(content) == ParseLines(content, None, None)

RECURSIVE ScanEntries(_)
\* the loop of get_packages over the .dist-info directories, in read_dir order
ScanEntries(entries) ==
    IF entries = << >> THEN << >>
    ELSE LET content == Head(entries)
             rest    == ScanEntries(Tail(entries))
         IN IF content = Unreadable THEN rest
            ELSE LET parsed == parse_metadata(content)
                 IN IF ~parsed[1].some THEN rest
                    ELSE <<[name |-> lowercase(parsed[1].val), version |-> parsed[2]]>>
                         \o rest

InitScan ==
    /\ FreshStore
    /\ \E entries \in SeqsUpTo(MetadataFiles, MaxEntries) :
          lastOp = [op |-> "args", entries |-> entries]

\* utils::get_packages on a site-packages without a torch package
get_packages ==
    /\ lastOp.op = "args"
    /\ lastOp' = [op |-> "get_packages", entries |-> lastOp.entries,
                  result |-> ScanEntries(lastOp.entries)]
    /\ UNCHANGED StoreVars

NextScan == get_packages

SpecScan == InitScan /\ [][NextScan]_vars

\* the lines before the first blank line
Header(content) ==
    IF \E i \in 1..Len(content) : content[i] = BlankLine
    THEN SubSeq(content, 1, (CHOOSE i \in 1..Len(content) :
                    content[i] = BlankLine /\ \A j \in 1..(i - 1) : content[j] # BlankLine) - 1)
    ELSE content

\* METADATA is readable and its header has a Name and a Version
WellFormed(content) ==
    /\ content # Unreadable
    /\ \E i \in 1..Len(Header(content)) : Header(content)[i].prefix = "Name: "
    /\ \E i \in 1..Len(Header(content)) : Header(content)[i].prefix = "Version: "

\* C27: the scanner emits one record for every well-formed .dist-info directory
\* and none for the others; every record has a non-empty name, lowercase with
\* '-' replaced by '_', and a version.
C27_ScanRecords ==
    lastOp.op = "get_packages" =>
        /\ Len(lastOp.result) =
              Cardinality({i \in 1..Len(lastOp.entries) : WellFormed(lastOp.entries[i])})
        /\ \A k \in 1..Len(lastOp.result) :
              LET rec == lastOp.result[k]
              IN /\ rec.name # << >>
                 /\ \A i \in 1..Len(rec.name) : rec.name[i] \notin {"F", "-"}
                 /\ rec.version.some

----------------------------------------------------------------------------
(* Bulk import: one worker per candidate directory, one registry handle *)

\* candidate directories found by discovery
Candidates == {"/x/a", "/y/a", "/x/b", "/y/b"}

\* path.file_name()
file_name(path) == IF path \in {"/x/a", "/y/a"} THEN "a" ELSE "b"

ImportFrame == <<templates, tplSeq, template_packages, active_sessions,
                 configuration, columns, disk>>

\* bulk_import(paths): par_iter hands every candidate to a worker; has_python is
\* what python_bin.exists() will answer for it
BulkImportBegin(c1, c2, py1, py2) ==
    /\ c1 # c2
    /\ \A h \in Procs : pc[h] = Idle
    /\ envSeq + Cardinality(Procs) <= MaxEnvId
    /\ pc' = [h \in Procs |->
                IF h = "proc1" THEN At("import_pending", c1, NoId, NULL, py1)
                ELSE At("import_pending", c2, NoId, NULL, py2)]
    /\ lastOp' = Op("bulk_import_begin", c1, c2, TRUE)
    /\ UNCHANGED <<environments, envSeq, labels, project_environments, comments,
                   ImportFrame>>

\* the closure of one worker: skip without bin/python, else register_env under
\* the handle's mutex with the directory's basename as the name
ImportWorker(h) ==
    /\ pc[h].at = "import_pending"
    /\ IF ~pc[h].d
       THEN /\ pc' = [pc EXCEPT ![h] = At("import_done", pc[h].p, NoId, NULL, FALSE)]
            /\ UNCHANGED <<environments, envSeq, labels, project_environments, comments>>
       ELSE /\ SetRows(InsertOrReplaceEnv(Rows, envSeq + 1, file_name(pc[h].p),
                                          pc[h].p, "unknown"))
            /\ envSeq' = envSeq + 1
            /\ pc' = [pc EXCEPT ![h] = At("import_done", pc[h].p, envSeq + 1, NULL, TRUE)]
    /\ UNCHANGED <<lastOp, ImportFrame>>

\* collect(): imported is the number of workers that returned true
BulkImportEnd ==
    /\ \A h \in Procs : pc[h].at = "import_done"
    /\ lastOp' = [op |-> "bulk_import",
                  candidates |-> {[path |-> pc[h].p, has_python |-> pc[h].d] : h \in Procs},
                  imported |-> Cardinality({h \in Procs : pc[h].d})]
    /\ pc' = [h \in Procs |-> Idle]
    /\ UNCHANGED <<environments, envSeq, labels, project_environments, comments,
                   ImportFrame>>

NextImport ==
    \/ \E c1, c2 \in Candidates, py1, py2 \in BOOLEAN : BulkImportBegin(c1, c2, py1, py2)
    \/ \E h \in Procs : ImportWorker(h)
    \/ BulkImportEnd

SpecImport == Init /\ [][NextImport]_vars

\* C29: after bulk_import every candidate with bin/python is registered under
\* its basename, whatever the order of the workers, and the imported count is
\* the number of environments the call put in the registry.
C29_BulkImport ==
    lastOp.op = "bulk_import" =>
        /\ \A c \in lastOp.candidates :
              c.has_python =>
                  \E r \in environments : r.path = c.path /\ r.name = file_name(c.path)
        /\ lastOp.imported =
              Cardinality({r \in environments :
                  \E c \in lastOp.candidates : c.path = r.path})

----------------------------------------------------------------------------
(* RPC handlers and the text they return *)

MaxNames == 2

\* package names a caller asks about, and what a scan of site-packages finds
RpcPackages == {"numpy", "torch"}

\* outcomes of the command run_in_environment starts
RunOutcomes == {"exit0", "exit1", "spawn_failed", "timed_out", "wait_failed"}

\* format!("Error: {}", e)
ErrorText(e) == <<"Error: ">> \o e

\* envs.iter().find(|(n, ..)| n == env_name)
Registered(n) == \E r \in environments : r.name = n

\* what one handler call leaves: the request, whether it failed, the text returned
Reply(name, ok, text) == [op |-> name, ok |-> ok, response |-> text]

\* a handler returns a String and changes no table
Served(name, ok, text) ==
    /\ lastOp' = Reply(name, ok, text)
    /\ UNCHANGED StoreVars

\* ZenMcp::get_environment_details
get_environment_details(n, db_ok) ==
    IF ~db_ok THEN Served("get_environment_details", FALSE, ErrorText(<<"db">>))
    ELSE IF Registered(n)
    THEN Served("get_environment_details", TRUE, <<"# Environment: ", n>>)
    ELSE Served("get_environment_details", FALSE, <<"Environment '", n, "' not found">>)

\* ZenMcp::get_environment_health -> ZenOps::check_health
get_environment_health(n, db_ok) ==
    IF ~db_ok THEN Served("get_environment_health", FALSE, ErrorText(<<"db">>))
    ELSE IF Registered(n)
    THEN Served("get_environment_health", TRUE, <<"Health: ", n>>)
    ELSE Served("get_environment_health", FALSE,
                ErrorText(<<"Environment '", n, "' not found">>))

\* ZenMcp::compare_environments
compare_environments(env_names, db_ok) ==
    IF Len(env_names) < 2
    THEN Served("compare_environments", FALSE,
                <<"At least two environment names are required">>)
    ELSE IF ~db_ok THEN Served("compare_environments", FALSE, ErrorText(<<"db">>))
    ELSE Served("compare_environments", TRUE,
                <<"# Comparison: ">> \o
                [i \in 1..Len(env_names) |->
                    IF Registered(env_names[i]) THEN "## Python" ELSE "## Not found"])

\* ZenMcp::get_package_details; scanned is what get_packages finds in the directory
get_package_details(n, package, scanned, db_ok) ==
    IF ~db_ok THEN Served("get_package_details", FALSE, ErrorText(<<"db">>))
    ELSE IF Registered(n)
    THEN IF package \in scanned
         THEN Served("get_package_details", TRUE, <<"# ", package, " in '", n, "'">>)
         ELSE Served("get_package_details", FALSE,
                     <<"Package '", package, "' not found in environment '", n, "'">>)
    ELSE Served("get_package_details", FALSE, <<"Environment '", n, "' not found">>)

\* ZenMcp::run_in_environment
run_in_environment(n, outcome, db_ok) ==
    IF ~db_ok THEN Served("run_in_environment", FALSE, ErrorText(<<"db">>))
    ELSE IF ~Registered(n)
    THEN Served("run_in_environment", FALSE,
                ErrorText(<<"Environment '", n, "' not found">>))
    ELSE CASE outcome = "exit0" -> Served("run_in_environment", TRUE, <<"output">>)
           [] outcome = "exit1" ->
                Served("run_in_environment", TRUE, <<"output", "\n[exit code: ", "1", "]">>)
           [] outcome = "spawn_failed" ->
                Served("run_in_environment", FALSE, ErrorText(<<"Failed to execute: ">>))
           [] outcome = "timed_out" ->
                Served("run_in_environment", FALSE, ErrorText(<<"Command timed out after ">>))
           [] outcome = "wait_failed" ->
                Served("run_in_environment", FALSE, ErrorText(<<"Error waiting for process: ">>))

NextRpc ==
    \/ \E n \in Names, v \in PyVersions : register_env(n, HomePath(n), v)
    \/ \E n \in Names, db_ok \in BOOLEAN : get_environment_details(n, db_ok)
    \/ \E n \in Names, db_ok \in BOOLEAN : get_environment_health(n, db_ok)
    \/ \E env_names \in SeqsUpTo(Names, MaxNames), db_ok \in BOOLEAN :
          compare_environments(env_names, db_ok)
    \/ \E n \in Names, package \in RpcPackages, scanned \in SUBSET RpcPackages,
          db_ok \in BOOLEAN : get_package_details(n, package, scanned, db_ok)
    \/ \E n \in Names, outcome \in RunOutcomes, db_ok \in BOOLEAN :
          run_in_environment(n, outcome, db_ok)

SpecRpc == Init /\ [][NextRpc]_vars

RpcOps == {"get_environment_details", "get_environment_health", "compare_environments",
           "get_package_details", "run_in_environment"}

BeginsWithError(text) == text # << >> /\ Head(text) = "Error: "

\* C19: every RPC operation that fails returns a text that begins with "Error: ".
C19_ErrorPrefix ==
    (lastOp.op \in RpcOps /\ ~lastOp.ok) => BeginsWithError(lastOp.response)

----------------------------------------------------------------------------
(* run_in_environment with a timeout: the poll loop and the child's pipes *)

MaxTimeout == 3
MaxWork == 4
MaxOutput == 2
\* what the stdout/stderr pipes hold before a write blocks, in the unit of MaxOutput
PipeCapacity == 1

RunFrame == <<environments, envSeq, labels, project_environments, comments,
              templates, tplSeq, template_packages, active_sessions,
              configuration, columns, disk>>

\* the child has finished its work and written all its output
Exited(run) == run.work = 0 /\ run.pending = 0

\* run_in_environment up to cmd.spawn(): the lookup, then a child that needs
\* `work` polls of time and writes `output` units to its piped stdout/stderr;
\* nothing reads the pipes while the loop polls
RunSpawn(h, n, timeout_secs, work, output) ==
    /\ pc[h] = Idle
    /\ IF ~Registered(n)
       THEN /\ lastOp' = Reply("run_in_environment", FALSE,
                               ErrorText(<<"Environment '", n, "' not found">>))
            /\ UNCHANGED pc
       ELSE /\ pc' = [pc EXCEPT ![h] =
                        [at |-> "polling", timeout_secs |-> timeout_secs, elapsed |-> 0,
                         work |-> work, work0 |-> work, output |-> output,
                         pending |-> IF output > PipeCapacity
                                     THEN output - PipeCapacity ELSE 0]]
            /\ UNCHANGED lastOp
    /\ UNCHANGED RunFrame

\* one turn of the loop: try_wait, the deadline test, sleep
RunPoll(h) ==
    /\ pc[h] # Idle
    /\ pc[h].at = "polling"
    /\ LET run == pc[h]
           done(ok, text) ==
               /\ lastOp' = [op |-> "run_in_environment", ok |-> ok, response |-> text,
                             timeout_secs |-> run.timeout_secs, work |-> run.work0,
                             output |-> run.output]
               /\ pc' = [pc EXCEPT ![h] = Idle]
       IN IF Exited(run)
          THEN done(TRUE, <<"output", run.output>>)
          ELSE IF run.elapsed >= run.timeout_secs
          THEN done(FALSE, ErrorText(<<"Command timed out after ", run.timeout_secs, "s">>))
          ELSE /\ pc' = [pc EXCEPT ![h] =
                           [run EXCEPT !.elapsed = @ + 1,
                                       !.work = IF run.work > 0 THEN run.work - 1 ELSE 0]]
               /\ UNCHANGED lastOp
    /\ UNCHANGED RunFrame

NextRun ==
    \/ register_env("a", HomePath("a"), "3.12")
    \/ \E n \in Names, timeout_secs \in 1..MaxTimeout, work \in 0..MaxWork,
          output \in 0..MaxOutput : RunSpawn("proc1", n, timeout_secs, work, output)
    \/ RunPoll("proc1")

SpecRun == Init /\ [][NextRun]_vars

\* C30: when the child would exit on its own before the deadline the response
\* carries its output, whatever the amount; the timeout error is returned only
\* when the child's own work is unfinished at the deadline.
C30_RunTimeout ==
    (lastOp.op = "run_in_environment" /\ "timeout_secs" \in DOMAIN lastOp) =>
        /\ lastOp.work < lastOp.timeout_secs =>
              lastOp.ok /\ lastOp.response = <<"output", lastOp.output>>
        /\ ~lastOp.ok => lastOp.work > lastOp.timeout_secs
====
